---- MODULE Spec2Model ----
(***************************************************************************)
(* A model of course-engine: the tar codec (tar.js, untar.js, archive.js), *)
(* the hierarchy builder (model.js), the workbook decoder (parser.js), the *)
(* OLX generators and the OLX decoder, and the Build-mode handlers of      *)
(* main.js.                                                                *)
(*                                                                         *)
(* JavaScript strings are TLA+ strings; characters are strings of length   *)
(* one.  A JavaScript Map is a sequence of <<key, value>> pairs with       *)
(* distinct keys, in insertion order.  `undefined` and the empty string    *)
(* are both written "": every read of a missing value in the modelled code *)
(* is followed by a falsiness test (`|| ''`, `if (!x)`).                   *)
(***************************************************************************)
EXTENDS Integers, Sequences, FiniteSets, TLC

VARIABLES
    \* --- tar codec ---
    tfiles,     \* the entry map handed to generateTarGz
    tmtime,     \* Math.floor(Date.now() / 1000) at packing time
    tpc,        \* "start" | "packed" | "walk" | "done"
    tblob,      \* the gzip container returned by generateTarGz
    theaders,   \* the header blocks createTar pushed, with their arguments
    tdata,      \* extractTar: the decompressed buffer
    toffset,    \* extractTar: offset
    tout,       \* extractTar: files
    thdrArgs,   \* <<the arguments of a direct createTarHeader call>>, or <<>>
    thdr        \* the header block that call returned

VARIABLES
    \* --- hierarchy builder ---
    hrows,      \* the StructureRow sequence handed to buildHierarchy
    hidMap,     \* the id lookup handed to buildHierarchy
    hinput,     \* <<rows, idMap>> as they were before the first call
    hpc,        \* "start" | "loop" | "cleanup" | "done"
    hidx,       \* the number of rows the loop has processed
    hstate,     \* chapters and chapterMap of the running call
    hresults    \* the trees returned by the calls made so far

tarVars ==
    <<tfiles, tmtime, tpc, tblob, theaders, tdata, toffset, tout, thdrArgs, thdr>>

\* parseWorkbook: the workbook, the sheet being read, { data, errors } so far
VARIABLES pwb, ppc, pst

hierVars == <<hrows, hidMap, hinput, hpc, hidx, hstate, hresults>>

parseVars == <<pwb, ppc, pst>>

VARIABLES
    \* --- Build export, then import of the exported entry map ---
    owb,        \* the workbook of the file handed to handleFile
    opc,        \* "load" | "loaded" | "exported" | "done"
    oload,      \* { data, errors } as parseWorkbook returned them
    ohierarchy, \* hierarchy, as handleFile left it
    ofiles,     \* allFiles of the export handler
    ores        \* { data, warnings } as parseOlx returned them

olxVars == <<owb, opc, oload, ohierarchy, ofiles, ores>>

VARIABLES
    \* --- Build mode of the page ---
    ufileName,  \* fileName.textContent
    uloads,     \* the files whose call of handleFile awaits parseWorkbook
    ucalls,     \* the number of calls of handleFile so far
    uresult,    \* the result of the last parseWorkbook that returned;
                \* courseData is its data
    uloaded,    \* courseData and hierarchy are not null
    uidMap,     \* idMap
    uhierarchy, \* hierarchy
    uerrorsList, \* errorsList.innerHTML while errorsSection is shown, "" otherwise
    udisabled,  \* exportBtn.disabled
    ushown,     \* exportBtn is displayed
    ulabel,     \* the text of exportBtn after its icon
    uexports,   \* the runs of the export handler that await a promise
    utimers,    \* the number of pending timers of the export handler
    uclicks     \* the number of clicks on exportBtn so far

uiVars ==
    <<ufileName, uloads, ucalls, uresult, uloaded, uidMap, uhierarchy, uerrorsList,
      udisabled, ushown, ulabel, uexports, utimers, uclicks>>

VARIABLES
    \* --- Import mode of the page ---
    ifileName,  \* importFileName.textContent
    iloads,     \* the files whose call of handleImportFile awaits arrayBuffer
    icalls,     \* the number of calls of handleImportFile so far
    idata,      \* importedCourseData, once it is not null
    iloaded,    \* importedCourseData is not null
    iwarnings,  \* importWarningsList.innerHTML while importWarningsSection is
                \* shown, "" otherwise
    ititle,     \* importCourseTitle.textContent
    istats,     \* the numbers importStatsSection shows
    ipreview,   \* the hierarchy importPreviewContent renders
    idisabled,  \* importExportBtn.disabled
    ishown,     \* importExportBtn is displayed
    ilabel,     \* the text of importExportBtn after its icon
    iexports,   \* the runs of the Excel export handler that await a promise
    itimers,    \* the number of pending timers of the Excel export handler
    iclicks     \* the number of clicks on importExportBtn so far

impVars ==
    <<ifileName, iloads, icalls, idata, iloaded, iwarnings, ititle, istats, ipreview,
      idisabled, ishown, ilabel, iexports, itimers, iclicks>>

\* escapeXml, then decodeXmlEntities and parseXmlAttributes
VARIABLES
    estr,       \* the string handed to escapeXml
    epc,        \* "start" | "escaped" | "decoded" | "read"
    eescaped,   \* what escapeXml returned
    edecoded,   \* what decodeXmlEntities returned for it
    eattr       \* what parseXmlAttributes returned for it as an attribute value

entVars == <<estr, epc, eescaped, edecoded, eattr>>

vars == <<tarVars, hierVars, parseVars, olxVars, uiVars, impVars, entVars>>

\* the variables of the other parts, which an action of one part leaves alone
tarOthers == <<hierVars, parseVars, olxVars, uiVars, impVars, entVars>>

hierOthers == <<tarVars, parseVars, olxVars, uiVars, impVars, entVars>>

parseOthers == <<tarVars, hierVars, olxVars, uiVars, impVars, entVars>>

olxOthers == <<tarVars, hierVars, parseVars, uiVars, impVars, entVars>>

uiOthers == <<tarVars, hierVars, parseVars, olxVars, impVars, entVars>>

impOthers == <<tarVars, hierVars, parseVars, olxVars, uiVars, entVars>>

entOthers == <<tarVars, hierVars, parseVars, olxVars, uiVars, impVars>>

-----------------------------------------------------------------------------
(* Bounds of the model.                                                    *)

\* the largest number of entries of an entry map handed to the tar codec
MaxEntries == 2

\* the largest number of StructureRows handed to buildHierarchy
MaxRows == 3

\* the largest number of data rows of the sheet a workbook varies
MaxSheetRows == 2

\* the largest number of tokens of a string handed to escapeXml
MaxTokens == 3

-----------------------------------------------------------------------------
(* Strings.                                                                *)

Min(a, b) == IF a < b THEN a ELSE b

Max(a, b) == IF a > b THEN a ELSE b

\* s.charAt(i - 1)
CharAt(s, i) == IF i >= 1 /\ i <= Len(s) THEN SubSeq(s, i, i) ELSE ""

\* s.substring(i - 1): the suffix of s starting at 1-based position i
Suffix(s, i) == IF i > Len(s) THEN "" ELSE SubSeq(s, i, Len(s))

\* s.substring(0, i - 1): the prefix of s ending before 1-based position i
Prefix(s, i) == IF i <= 1 THEN "" ELSE SubSeq(s, 1, Min(i - 1, Len(s)))

\* whether p occurs in s at 1-based position i
StartsWithAt(s, p, i) ==
    /\ i >= 1
    /\ i + Len(p) - 1 <= Len(s)
    /\ SubSeq(s, i, i + Len(p) - 1) = p

SetMin(S) == CHOOSE x \in S : \A y \in S : x <= y

SetMax(S) == CHOOSE x \in S : \A y \in S : x >= y

\* s.indexOf(p, from - 1) + 1: the first position >= from where p occurs, 0 if none
IndexOf(s, p, from) ==
    LET hits == {i \in Max(from, 1)..(Len(s) - Len(p) + 1) : StartsWithAt(s, p, i)}
    IN  IF hits = {} THEN 0 ELSE SetMin(hits)

RECURSIVE ConcatRange(_, _, _)
\* F(lo) \o F(lo + 1) \o ... \o F(hi)
ConcatRange(F(_), lo, hi) ==
    IF lo > hi THEN ""
    ELSE IF lo = hi THEN F(lo)
    ELSE LET mid == (lo + hi) \div 2
         IN  ConcatRange(F, lo, mid) \o ConcatRange(F, mid + 1, hi)

Includes(s, p) == IndexOf(s, p, 1) > 0

RECURSIVE ReplaceAllFrom(_, _, _, _)
ReplaceAllFrom(s, p, r, from) ==
    LET i == IndexOf(s, p, from)
    IN  IF i = 0 THEN Suffix(s, from)
        ELSE SubSeq(s, from, i - 1) \o r \o ReplaceAllFrom(s, p, r, i + Len(p))

\* s.replace(/p/g, r) for a literal, non-empty p
ReplaceAll(s, p, r) == ReplaceAllFrom(s, p, r, 1)

\* s.repeat(n)
Repeat(s, n) == ConcatRange(LAMBDA i : s, 1, n)

\* the printable ASCII characters of codes 32..95 and 97..126
AsciiLow ==
    " !\"#$%&'()*+,-./0123456789:;<=>?@ABCDEFGHIJKLMNOPQRSTUVWXYZ[\\]^_"

AsciiHigh == "abcdefghijklmnopqrstuvwxyz{|}~"

AsciiChars ==
    {SubSeq(AsciiLow, i, i) : i \in 1..Len(AsciiLow)}
        \cup {SubSeq(AsciiHigh, i, i) : i \in 1..Len(AsciiHigh)}

CodeTable ==
    [c \in AsciiChars |->
        IF IndexOf(AsciiLow, c, 1) > 0
        THEN 31 + IndexOf(AsciiLow, c, 1)
        ELSE 96 + IndexOf(AsciiHigh, c, 1)]

\* str.charCodeAt(0) of a one-character string
CharCode(c) ==
    IF c = "\n" THEN 10
    ELSE IF c = "\t" THEN 9
    ELSE IF c = "\r" THEN 13
    ELSE CodeTable[c]

\* the character of a byte; bytes outside the modelled alphabet (controls other
\* than \n and \t, code 96, and everything from 127 up) read as "\r", a
\* character no modelled input holds
FromCharCode(b) ==
    IF b = 10 THEN "\n"
    ELSE IF b = 9 THEN "\t"
    ELSE IF b >= 32 /\ b <= 95 THEN SubSeq(AsciiLow, b - 31, b - 31)
    ELSE IF b >= 97 /\ b <= 126 THEN SubSeq(AsciiHigh, b - 96, b - 96)
    ELSE "\r"

IsSpace(c) == c \in {" ", "\n", "\t", "\r"}

IsDigit(c) == c \in {"0", "1", "2", "3", "4", "5", "6", "7", "8", "9"}

LowerLetters == "abcdefghijklmnopqrstuvwxyz"

UpperLetters == "ABCDEFGHIJKLMNOPQRSTUVWXYZ"

LowerSet == {SubSeq(LowerLetters, i, i) : i \in 1..26}

UpperSet == {SubSeq(UpperLetters, i, i) : i \in 1..26}

IsLower(c) == c \in LowerSet

IsUpper(c) == c \in UpperSet

\* \w of a JavaScript regular expression
IsWord(c) == IsLower(c) \/ IsUpper(c) \/ IsDigit(c) \/ c = "_"

\* every character of s replaced by its image under F
MapChars(F(_), s) == ConcatRange(LAMBDA i : F(CharAt(s, i)), 1, Len(s))

LowerOf ==
    [c \in UpperSet |->
        LET i == CHOOSE j \in 1..26 : SubSeq(UpperLetters, j, j) = c
        IN  SubSeq(LowerLetters, i, i)]

UpperOf ==
    [c \in LowerSet |->
        LET i == CHOOSE j \in 1..26 : SubSeq(LowerLetters, j, j) = c
        IN  SubSeq(UpperLetters, i, i)]

LowerChar(c) == IF IsUpper(c) THEN LowerOf[c] ELSE c

UpperChar(c) == IF IsLower(c) THEN UpperOf[c] ELSE c

ToLowerCase(s) == MapChars(LowerChar, s)

ToUpperCase(s) == MapChars(UpperChar, s)

\* the least element of a set of positions, 0 for the empty set
MinOrZero(S) == IF S = {} THEN 0 ELSE SetMin(S)

\* the greatest element of a set of positions, 0 for the empty set
MaxOrZero(S) == IF S = {} THEN 0 ELSE SetMax(S)

\* the places of s that hold something other than white space
NonSpaces(s) == {j \in 1..Len(s) : ~IsSpace(CharAt(s, j))}

\* s cut down to the span of the places kept
TrimTo(s, kept) == IF kept = {} THEN "" ELSE SubSeq(s, SetMin(kept), SetMax(kept))

\* s.trim()
Trim(s) == TrimTo(s, NonSpaces(s))

\* s from the first of the places kept on
TrimStartTo(s, kept) == IF kept = {} THEN "" ELSE SubSeq(s, SetMin(kept), Len(s))

\* s.trimStart()
TrimStart(s) == TrimStartTo(s, NonSpaces(s))

RECURSIVE SplitFrom(_, _, _)
SplitFrom(s, sep, from) ==
    LET i == IndexOf(s, sep, from)
    IN  IF i = 0 THEN <<Suffix(s, from)>>
        ELSE <<SubSeq(s, from, i - 1)>> \o SplitFrom(s, sep, i + Len(sep))

\* s.split(sep) for a literal, non-empty separator
Split(s, sep) == SplitFrom(s, sep, 1)

RECURSIVE Join(_, _)
\* parts.join(sep)
Join(parts, sep) ==
    IF Len(parts) = 0 THEN ""
    ELSE IF Len(parts) = 1 THEN parts[1]
    ELSE parts[1] \o sep \o Join(Tail(parts), sep)

\* a < b on strings: the order of Array.prototype.sort without a comparator
StrLess(a, b) ==
    LET diff == {i \in 1..Min(Len(a), Len(b)) : CharAt(a, i) # CharAt(b, i)}
    IN  IF diff = {} THEN Len(a) < Len(b)
        ELSE CharCode(CharAt(a, SetMin(diff))) < CharCode(CharAt(b, SetMin(diff)))

RECURSIVE SortStrings(_)
\* [...set].sort()
SortStrings(S) ==
    IF S = {} THEN <<>>
    ELSE LET m == CHOOSE x \in S : \A y \in S \ {x} : StrLess(x, y)
         IN  <<m>> \o SortStrings(S \ {m})

-----------------------------------------------------------------------------
(* Maps: sequences of <<key, value>> pairs with distinct keys.             *)

MapKeys(m) == {m[i][1] : i \in 1..Len(m)}

MapHas(m, k) == k \in MapKeys(m)

\* m.get(k), "" when k is absent
MapGet(m, k) ==
    IF MapHas(m, k)
    THEN m[CHOOSE i \in 1..Len(m) : m[i][1] = k][2]
    ELSE ""

\* m.set(k, v): the value is replaced in place, a new key goes last
MapSet(m, k, v) ==
    IF MapHas(m, k)
    THEN [i \in 1..Len(m) |-> IF m[i][1] = k THEN <<k, v>> ELSE m[i]]
    ELSE Append(m, <<k, v>>)

\* for (const [k, v] of src) dst.set(k, v), for a list src of <<k, v>> pairs:
\* a key keeps the place of its first set and gets the value of its last
MapMerge(dst, src) ==
    LET pairs   == src \o <<>>
        last(k) == pairs[SetMax({j \in 1..Len(pairs) : pairs[j][1] = k})][2]
        fresh   == {j \in 1..Len(pairs) :
                       /\ ~MapHas(dst, pairs[j][1])
                       /\ \A i \in 1..(j - 1) : pairs[i][1] # pairs[j][1]}
        nth(n)  == CHOOSE j \in fresh : Cardinality({i \in fresh : i < j}) = n - 1
    IN  [i \in 1..Len(dst) |->
            IF \E j \in 1..Len(pairs) : pairs[j][1] = dst[i][1]
            THEN <<dst[i][1], last(dst[i][1])>>
            ELSE dst[i]]
        \o [n \in 1..Cardinality(fresh) |-> <<pairs[nth(n)][1], last(pairs[nth(n)][1])>>]

\* two maps with the same keys and, for every key, the same value
SameMap(a, b) ==
    /\ MapKeys(a) = MapKeys(b)
    /\ \A k \in MapKeys(a) : MapGet(a, k) = MapGet(b, k)

-----------------------------------------------------------------------------
(* Numbers as text.                                                        *)

Digits == "0123456789abcdef"

\* the value of digit character c in the given radix, -1 if it is no digit
DigitValue(c, radix) ==
    LET i == IndexOf(Digits, LowerChar(c), 1)
    IN  IF Len(c) = 1 /\ i > 0 /\ i <= radix THEN i - 1 ELSE -1

RECURSIVE ToRadix(_, _)
\* n.toString(radix) for n >= 0
ToRadix(n, radix) ==
    IF n < radix THEN CharAt(Digits, n + 1)
    ELSE ToRadix(n \div radix, radix) \o CharAt(Digits, (n % radix) + 1)

\* s.padStart(n, c)
PadStart(s, n, c) == Repeat(c, n - Len(s)) \o s

RECURSIVE DigitRun(_, _, _, _)
\* the value of the longest run of radix digits of s from position i on,
\* acc being the value read so far; -1 if the run is empty
DigitRun(s, i, radix, acc) ==
    IF i <= Len(s) /\ DigitValue(CharAt(s, i), radix) >= 0
    THEN DigitRun(s, i + 1, radix, Max(acc, 0) * radix + DigitValue(CharAt(s, i), radix))
    ELSE acc

\* parseInt(s, radix) || 0: leading white space, an optional sign, then the
\* longest run of digits; NaN (no digit) and 0 both give 0.  Without a radix
\* (radix = 0) the text is decimal unless it starts with 0x or 0X.
ParseIntDigits(u, radix) ==
    LET hex == radix = 0 /\ Len(u) >= 2 /\ ToLowerCase(SubSeq(u, 1, 2)) = "0x"
    IN  Max(0, DigitRun(IF hex THEN Suffix(u, 3) ELSE u, 1,
                        IF hex THEN 16 ELSE IF radix = 0 THEN 10 ELSE radix, -1))

ParseIntSigned(t, radix) ==
    (IF t # "" /\ Head(t) = "-" THEN -1 ELSE 1)
        * ParseIntDigits(IF t # "" /\ Head(t) \in {"-", "+"} THEN Tail(t) ELSE t, radix)

ParseIntOr0(s, radix) == ParseIntSigned(TrimStart(s), radix)

\* Math.ceil(a / b) for b > 0
CeilDiv(a, b) == 0 - ((0 - a) \div b)

-----------------------------------------------------------------------------
(* Byte buffers: sequences of integers 0..255.                             *)

\* the model's stand-in for the JavaScript character '\0'
NUL == "\f"

ByteOfChar(c) == IF c = NUL THEN 0 ELSE CharCode(c) % 256

CharOfByte(b) == IF b = 0 THEN NUL ELSE FromCharCode(b)

Zeros(n) == [i \in 1..n |-> 0]

\* new TextEncoder().encode(s); the modelled alphabet is ASCII, one byte each
TextEncode(s) == [i \in 1..Len(s) |-> ByteOfChar(CharAt(s, i))]

\* new TextDecoder(...).decode(buf)
TextDecode(buf) == ConcatRange(LAMBDA i : CharOfByte(buf[i]), 1, Len(buf))

\* an index of subarray, 0-based: a negative one counts from the end, and
\* every index is clamped to the buffer
SubarrayIndex(len, i) == IF i < 0 THEN Max(len + i, 0) ELSE Min(i, len)

\* buf.subarray(from, to)
Subarray(buf, from, to) ==
    IF SubarrayIndex(Len(buf), to) <= SubarrayIndex(Len(buf), from) THEN <<>>
    ELSE SubSeq(buf, SubarrayIndex(Len(buf), from) + 1, SubarrayIndex(Len(buf), to))

RECURSIVE SumRange(_, _, _)
SumRange(buf, lo, hi) ==
    IF lo > hi THEN 0
    ELSE IF lo = hi THEN buf[lo]
    ELSE LET mid == (lo + hi) \div 2
         IN  SumRange(buf, lo, mid) + SumRange(buf, mid + 1, hi)

\* gzipSync / gunzipSync of fflate: a lossless container around the bytes
GzipSync(data) == [gzip |-> data]

GunzipSync(blob) == blob.gzip

-----------------------------------------------------------------------------
(* tar.js                                                                  *)

BlockSize == 512

\* writeString(buf, offset, str, maxLen); offset is 0-based
WriteString(buf, offset, str, maxLen) ==
    [i \in 1..Len(buf) |->
        IF i - 1 >= offset /\ i - 1 < offset + Min(Len(str), maxLen)
        THEN ByteOfChar(CharAt(str, i - offset))
        ELSE buf[i]]

\* a checksum that leaves the eight checksum bytes out of the sum
HeaderSumNoPlaceholder(header) ==
    SumRange(header, 1, 148) + SumRange(header, 157, Len(header))

\* the checksum createTarHeader computes: the sum of all bytes of the header
HeaderSum(header) == SumRange(header, 1, Len(header))

\* createTarHeader(name, size, isDir), mtime being Math.floor(Date.now() / 1000)
CreateTarHeader(name, size, isDir, mtime) ==
    LET h0 == Zeros(BlockSize)
        h1 == WriteString(h0, 0, name, 100)
        h2 == WriteString(h1, 100, IF isDir THEN "0000755" ELSE "0000644", 8)
        h3 == WriteString(h2, 108, "0001000", 8)
        h4 == WriteString(h3, 116, "0001000", 8)
        h5 == WriteString(h4, 124, PadStart(ToRadix(size, 8), 11, "0"), 12)
        h6 == WriteString(h5, 136, PadStart(ToRadix(mtime, 8), 11, "0"), 12)
        h7 == [i \in 1..BlockSize |-> IF i - 1 >= 148 /\ i - 1 < 156 THEN 32 ELSE h6[i]]
        h8 == [h7 EXCEPT ![157] = IF isDir THEN 53 ELSE 48]
        h9 == WriteString(h8, 257, "ustar", 6)
        h10 == [h9 EXCEPT ![264] = 32, ![265] = 32]
        checksum == HeaderSum(h10)
    IN  WriteString(h10, 148, PadStart(ToRadix(checksum, 8), 6, "0") \o NUL \o " ", 8)

\* the directory paths of one entry name: every proper prefix, with a final '/'
EntryDirs(name) ==
    LET parts == Split(name, "/")
    IN  {Join(SubSeq(parts, 1, i), "/") \o "/" : i \in 1..(Len(parts) - 1)}

\* data padded with zeros to a multiple of 512 bytes
Padded(data) ==
    data \o Zeros(CeilDiv(Len(data), BlockSize) * BlockSize - Len(data))

RECURSIVE FileBlocks(_, _)
\* the header and padded data of every entry, in order
FileBlocks(entries, mtime) ==
    IF Len(entries) = 0 THEN <<>>
    ELSE CreateTarHeader(entries[1].name, Len(entries[1].data), FALSE, mtime)
            \o Padded(entries[1].data)
            \o FileBlocks(Tail(entries), mtime)

RECURSIVE DirBlocks(_, _)
DirBlocks(dirs, mtime) ==
    IF Len(dirs) = 0 THEN <<>>
    ELSE CreateTarHeader(dirs[1], 0, TRUE, mtime) \o DirBlocks(Tail(dirs), mtime)

\* the sorted directory list of createTar
TarDirs(entries) ==
    SortStrings(UNION {EntryDirs(entries[i].name) : i \in 1..Len(entries)})

\* createTar(entries)
CreateTar(entries, mtime) ==
    DirBlocks(TarDirs(entries), mtime)
        \o FileBlocks(entries, mtime)
        \o Zeros(2 * BlockSize)

\* tarGzip(entries)
TarGzip(entries, mtime) == GzipSync(CreateTar(entries, mtime))

-----------------------------------------------------------------------------
(* archive.js                                                              *)

\* the entries generateTarGz builds from the entry map
TarEntries(files) ==
    [i \in 1..Len(files) |->
        [name |-> "course/" \o files[i][1], data |-> TextEncode(files[i][2])]]

\* generateTarGz(files)
GenerateTarGz(files, mtime) == TarGzip(TarEntries(files), mtime)

-----------------------------------------------------------------------------
(* untar.js                                                                *)

\* readString's scan: the first index from `offset` on that holds 0, or limit
ReadEnd(buf, offset, limit) ==
    LET zeros == {e \in offset..(limit - 1) : buf[e + 1] = 0}
    IN  IF zeros = {} THEN Max(offset, limit) ELSE SetMin(zeros)

\* readString(buf, offset, maxLen); offset is 0-based
ReadString(buf, offset, maxLen) ==
    LET limit == Min(offset + maxLen, Len(buf))
        end   == ReadEnd(buf, offset, limit)
    IN  TextDecode(Subarray(buf, offset, end))

\* isZeroBlock(block)
IsZeroBlock(block) == \A i \in 1..Min(BlockSize, Len(block)) : block[i] = 0

\* the fields extractTar reads from the header at `offset`
TarHeaderAt(data, offset) ==
    LET header   == Subarray(data, offset, offset + BlockSize)
        name     == ReadString(header, 0, 100)
        prefix   == ReadString(header, 345, 155)
        sizeStr  == Trim(ReplaceAll(ReadString(header, 124, 12), NUL, ""))
    IN  [zero     |-> IsZeroBlock(header),
         name     |-> name,
         fullName |-> IF prefix # "" THEN prefix \o "/" \o name ELSE name,
         size     |-> ParseIntOr0(sizeStr, 8),
         isFile   |-> Len(header) > 156 /\ (header[157] = 48 \/ header[157] = 0)]

\* the path under which extractTar stores an entry: the part after the first '/'
CleanPath(fullName) ==
    LET slashIdx == IndexOf(fullName, "/", 1) - 1
    IN  IF slashIdx > 0 THEN Suffix(fullName, slashIdx + 2) ELSE fullName

\* whether the loop of extractTar runs its body to the end at `offset`
TarWalkOn(data, offset) ==
    /\ offset + BlockSize <= Len(data)
    /\ ~TarHeaderAt(data, offset).zero
    /\ TarHeaderAt(data, offset).name # ""

\* one iteration of the loop of extractTar: the new files map
TarWalkFiles(data, offset, files) ==
    LET h    == TarHeaderAt(data, offset)
        body == offset + BlockSize
        text == TextDecode(Subarray(data, body, body + h.size))
    IN  IF h.isFile /\ h.size > 0 /\ CleanPath(h.fullName) # ""
        THEN MapSet(files, CleanPath(h.fullName), text)
        ELSE files

\* one iteration of the loop of extractTar: the new offset
TarWalkOffset(data, offset) ==
    offset + BlockSize + CeilDiv(TarHeaderAt(data, offset).size, BlockSize) * BlockSize

RECURSIVE ExtractTarFrom(_, _, _)
\* the loop of extractTar from an offset on, and the return of files
ExtractTarFrom(data, offset, files) ==
    IF ~TarWalkOn(data, offset) THEN files
    ELSE ExtractTarFrom(data, TarWalkOffset(data, offset), TarWalkFiles(data, offset, files))

\* extractTar(data)
ExtractTar(data) == ExtractTarFrom(data, 0, <<>>)

\* extractTarGz(buffer)
ExtractTarGz(blob) == ExtractTar(GunzipSync(blob))

-----------------------------------------------------------------------------
(* utils.js (appended to generators/problem.js in this source tree)        *)

\* the replacement of /[^a-z0-9_-]/g by '_'
SanitizeChar(c) == IF IsLower(c) \/ IsDigit(c) \/ c \in {"_", "-"} THEN c ELSE "_"

\* the replacement of /_+/g by '_'
CollapseUnderscores(s) ==
    ConcatRange(LAMBDA i : IF i > 1 /\ CharAt(s, i) = "_" /\ CharAt(s, i - 1) = "_"
                           THEN "" ELSE CharAt(s, i),
                1, Len(s))

\* the replacement of /^_|_$/g by ''
StripUnderscores(s) ==
    LET a == IF s # "" /\ Head(s) = "_" THEN Tail(s) ELSE s
    IN  IF a # "" /\ CharAt(a, Len(a)) = "_" THEN SubSeq(a, 1, Len(a) - 1) ELSE a

\* sanitizeUrlName(str)
SanitizeUrlName(str) ==
    LET t == StripUnderscores(CollapseUnderscores(MapChars(SanitizeChar, ToLowerCase(str))))
    IN  SubSeq(t, 1, Min(60, Len(t)))

\* generateId().substring(0, 8): eight hexadecimal digits drawn at random; the
\* n-th draw of a run is modelled as a value no other draw of the run returns
GenerateId8(n) == PadStart(ToRadix(n, 16), 8, "0")

-----------------------------------------------------------------------------
(* model.js                                                                *)

\* createCourseData()
CreateCourseData ==
    [info |-> [courseName |-> "", org |-> "", courseId |-> "", run |-> "",
               language |-> "en", startDate |-> "", endDate |-> "",
               selfPaced |-> TRUE],
     structure |-> <<>>,
     textBlocks |-> <<>>,
     videoBlocks |-> <<>>,
     problemBlocks |-> <<>>,
     openResponseBlocks |-> <<>>]

\* the keys under which the id lookup holds the ids of a row's three nodes
ChKey(row) == "ch:" \o row.chapter

SeqKey(row) == "seq:" \o row.chapter \o "|" \o row.sequential

VertKey(row) == "vert:" \o row.chapter \o "|" \o row.sequential \o "|" \o row.vertical

\* an id that depends on how many calls were made before, not on the lookup alone
NodeIdPerCall(idMap, key, name) ==
    (IF MapGet(idMap, key) # "" THEN MapGet(idMap, key) ELSE name)
        \o "_" \o ToRadix(Len(hresults), 10)

\* idMap.get(key) || name
NodeId(idMap, key, name) ==
    IF MapGet(idMap, key) # "" THEN MapGet(idMap, key) ELSE name

\* a lookup that finds a node only when it is the last one created
HasNodeLastOnly(nodes, map, name) ==
    Len(nodes) > 0 /\ nodes[Len(nodes)].name = name

\* chapterMap.has(name), _seqMap.has(name), _vertMap.has(name)
HasNode(nodes, map, name) == MapHas(map, name)

\* the state of a call of buildHierarchy before its loop
BuildStart == [chapters |-> <<>>, chapterMap |-> <<>>]

\* if (!vertMap.has(row.vertical)) { ... }: the sequential with the row's
\* vertical created when it has none of that name
VerticalAdded(sequential, row, idMap) ==
    IF HasNode(sequential.verticals, sequential.vertMap, row.vertical) THEN sequential
    ELSE [sequential EXCEPT
            !.verticals = Append(@, [name |-> row.vertical,
                                     id |-> NodeId(idMap, VertKey(row), row.vertical),
                                     blocks |-> <<>>]),
            !.vertMap = MapSet(@, row.vertical, Len(sequential.verticals) + 1)]

\* vertical.blocks.push(...) on the vertical the lookup of the sequential names
BlockPushed(sequential, row) ==
    [sequential EXCEPT
        !.verticals[MapGet(sequential.vertMap, row.vertical)].blocks =
            Append(@, [type |-> row.blockType, blockId |-> row.blockId])]

\* if (!seqMap.has(row.sequential)) { ... }: the chapter with the row's
\* sequential created when it has none of that name
SequentialAdded(chapter, row, idMap) ==
    IF HasNode(chapter.sequentials, chapter.seqMap, row.sequential) THEN chapter
    ELSE [chapter EXCEPT
            !.sequentials = Append(@, [name |-> row.sequential,
                                       id |-> NodeId(idMap, SeqKey(row), row.sequential),
                                       verticals |-> <<>>,
                                       vertMap |-> <<>>]),
            !.seqMap = MapSet(@, row.sequential, Len(chapter.sequentials) + 1)]

\* the rest of the iteration on the sequential the lookup of the chapter names
SequentialFilled(chapter, row, idMap) ==
    [chapter EXCEPT
        !.sequentials[MapGet(chapter.seqMap, row.sequential)] =
            BlockPushed(VerticalAdded(@, row, idMap), row)]

\* if (!chapterMap.has(row.chapter)) { ... }: the row's chapter created when
\* there is none of that name
ChapterAdded(st, row, idMap) ==
    IF HasNode(st.chapters, st.chapterMap, row.chapter) THEN st
    ELSE [chapters |-> Append(st.chapters,
                          [name |-> row.chapter,
                           id |-> NodeId(idMap, ChKey(row), row.chapter),
                           sequentials |-> <<>>,
                           seqMap |-> <<>>]),
          chapterMap |-> MapSet(st.chapterMap, row.chapter, Len(st.chapters) + 1)]

\* the rest of the iteration on the chapter the lookup names
ChapterFilled(st, row, idMap) ==
    [st EXCEPT
        !.chapters[MapGet(st.chapterMap, row.chapter)] =
            SequentialFilled(SequentialAdded(@, row, idMap), row, idMap)]

\* one iteration of the loop of buildHierarchy
BuildRow(st, row, idMap) == ChapterFilled(ChapterAdded(st, row, idMap), row, idMap)

\* the tree buildHierarchy returns: the temporary maps are deleted
BuildCleanup(chapters) ==
    [c \in 1..Len(chapters) |->
        [name |-> chapters[c].name,
         id |-> chapters[c].id,
         sequentials |->
            [q \in 1..Len(chapters[c].sequentials) |->
                [name |-> chapters[c].sequentials[q].name,
                 id |-> chapters[c].sequentials[q].id,
                 verticals |-> chapters[c].sequentials[q].verticals]]]]

RECURSIVE BuildLoop(_, _, _, _)
BuildLoop(st, structure, i, idMap) ==
    IF i > Len(structure) THEN st
    ELSE BuildLoop(BuildRow(st, structure[i], idMap), structure, i + 1, idMap)

\* buildHierarchy(structure, idMap)
BuildHierarchy(structure, idMap) ==
    BuildCleanup(BuildLoop(BuildStart, structure, 1, idMap).chapters)

-----------------------------------------------------------------------------
(* main.js: the id lookup handleFile and handleImportFile build            *)

\* the keys the loop that fills idMap looks up, in the order it looks them up,
\* each with the name its id is made from: three for every row
IdMapKeys(structure) ==
    [j \in 1..(3 * Len(structure)) |->
        LET row == structure[(j - 1) \div 3 + 1]
        IN  CASE (j - 1) % 3 = 0 -> <<ChKey(row), row.chapter>>
              [] (j - 1) % 3 = 1 -> <<SeqKey(row), row.sequential>>
              [] OTHER           -> <<VertKey(row), row.vertical>>] \o <<>>

\* the idMap built for a structure, the first generated id being the seed-th:
\* a key is set the first time it is looked up, with the next generated id
BuildIdMap(structure, seed) ==
    LET keys   == IdMapKeys(structure)
        fresh  == {j \in 1..Len(keys) : \A i \in 1..(j - 1) : keys[i][1] # keys[j][1]}
        nth(n) == CHOOSE j \in fresh : Cardinality({i \in fresh : i < j}) = n - 1
    IN  [n \in 1..Cardinality(fresh) |->
            <<keys[nth(n)][1],
              SanitizeUrlName(keys[nth(n)][2]) \o "_" \o GenerateId8(seed + n - 1)>>] \o <<>>

-----------------------------------------------------------------------------
(* The tar codec as a state machine: generateTarGz, then extractTarGz with *)
(* one step per iteration of the loop of extractTar; and createTarHeader   *)
(* called on its own.                                                      *)

\* no container yet
NoBlob == [gzip |-> <<>>]

\* a path whose "course/"-prefixed name is longer than the 100-byte name field
LongPath == "html/" \o Repeat("x", 92) \o ".xml"

TarPaths == {"course.xml", "html/a.html", LongPath}

\* contents of 0 bytes, of less than a block, and of more than a block
TarContents == {"", "<a/>\n", Repeat("xy", 257)}

TarMtimes == {0, 1730000000}

RECURSIVE EntryMaps(_)
\* the entry maps of n entries over TarPaths and TarContents
EntryMaps(n) ==
    IF n = 0 THEN {<<>>}
    ELSE {Append(m, <<p, c>>) :
            m \in EntryMaps(n - 1), p \in TarPaths, c \in TarContents}

TarInputs ==
    {m \in UNION {EntryMaps(n) : n \in 0..MaxEntries} :
        \A i, j \in 1..Len(m) : i # j => m[i][1] # m[j][1]}

\* arguments of createTarHeader: names up to and past 100 bytes, sizes up to
\* the largest integer of the model checker (11 octal digits)
HeaderArgs ==
    [name  : {"course/", "course/a.xml", "course/" \o LongPath},
     size  : {0, 1, 511, 513, 2147483647},
     isDir : BOOLEAN]

TarInit ==
    /\ tmtime \in TarMtimes
    /\ \/ tfiles \in TarInputs /\ thdrArgs = <<>>
       \/ tfiles = <<>> /\ thdrArgs \in {<<a>> : a \in HeaderArgs}
    /\ tpc = "start"
    /\ tblob = NoBlob
    /\ theaders = <<>>
    /\ tdata = <<>>
    /\ toffset = 0
    /\ tout = <<>>
    /\ thdr = <<>>

\* the values the tar variables keep while another part of the program runs
TarIdle ==
    /\ tfiles = <<>>
    /\ tmtime = 0
    /\ tpc = "idle"
    /\ tblob = NoBlob
    /\ theaders = <<>>
    /\ tdata = <<>>
    /\ toffset = 0
    /\ tout = <<>>
    /\ thdrArgs = <<>>
    /\ thdr = <<>>

\* the headers createTar pushes, each with the arguments of its call
PushedHeaders(entries, mtime) ==
    [i \in 1..Len(TarDirs(entries)) |->
        [name |-> TarDirs(entries)[i], size |-> 0, isDir |-> TRUE,
         bytes |-> CreateTarHeader(TarDirs(entries)[i], 0, TRUE, mtime)]]
    \o
    [i \in 1..Len(entries) |->
        [name |-> entries[i].name, size |-> Len(entries[i].data), isDir |-> FALSE,
         bytes |-> CreateTarHeader(entries[i].name, Len(entries[i].data), FALSE, mtime)]]

\* generateTarGz(tfiles)
TarPack ==
    /\ tpc = "start"
    /\ thdrArgs = <<>>
    /\ tblob' = GenerateTarGz(tfiles, tmtime)
    /\ theaders' = PushedHeaders(TarEntries(tfiles), tmtime)
    /\ tpc' = "packed"
    /\ UNCHANGED <<tfiles, tmtime, tdata, toffset, tout, thdrArgs, thdr>>
    /\ UNCHANGED tarOthers

\* extractTarGz(buffer) up to the loop of extractTar
TarOpen ==
    /\ tpc = "packed"
    /\ tdata' = GunzipSync(tblob)
    /\ toffset' = 0
    /\ tout' = <<>>
    /\ tpc' = "walk"
    /\ UNCHANGED <<tfiles, tmtime, tblob, theaders, thdrArgs, thdr>>
    /\ UNCHANGED tarOthers

\* one iteration of the loop of extractTar
TarWalk ==
    /\ tpc = "walk"
    /\ TarWalkOn(tdata, toffset)
    /\ tout' = TarWalkFiles(tdata, toffset, tout)
    /\ toffset' = TarWalkOffset(tdata, toffset)
    /\ UNCHANGED <<tfiles, tmtime, tpc, tblob, theaders, tdata, thdrArgs, thdr>>
    /\ UNCHANGED tarOthers

\* the loop of extractTar ends (its condition fails, or a break) and files is returned
TarReturn ==
    /\ tpc = "walk"
    /\ ~TarWalkOn(tdata, toffset)
    /\ tpc' = "done"
    /\ UNCHANGED <<tfiles, tmtime, tblob, theaders, tdata, toffset, tout, thdrArgs, thdr>>
    /\ UNCHANGED tarOthers

\* createTarHeader(name, size, isDir) called on its own
TarHeader ==
    /\ tpc = "start"
    /\ thdrArgs # <<>>
    /\ thdr' = CreateTarHeader(thdrArgs[1].name, thdrArgs[1].size, thdrArgs[1].isDir, tmtime)
    /\ tpc' = "header"
    /\ UNCHANGED <<tfiles, tmtime, tblob, theaders, tdata, toffset, tout, thdrArgs>>
    /\ UNCHANGED tarOthers


-----------------------------------------------------------------------------
(* extractTarGz on buffers generateTarGz did not write: archives cut short  *)
(* and archives whose size field holds another text.                        *)

\* the tar bytes of the archives the buffers are made from: one small file, a
\* file of more than a block, two files
UntarBases ==
    {GunzipSync(GenerateTarGz(m, 0)) :
        m \in {<<<<"course.xml", "<a/>\n">>>>,
               <<<<"course.xml", Repeat("xy", 257)>>>>,
               <<<<"course.xml", "<a/>\n">>, <<"html/a.html", "<p>x</p>\n">>>>}}

\* the lengths a buffer is cut to: inside a header, at and around the block
\* boundaries, inside a file's data
CutLengths == {0, 100, 511, 512, 513, 1000, 1024, 1029, 1536, 2047}

\* texts of the size field: not octal, empty, negative, larger than the rest
\* of the data, with white space and with digits 8 and 9
SizeTexts == {"", "zzz", "99", "-5", "-1000", "-2001", "7777", "7777777", " 12 ", "5x"}

\* buf with the size field of the header at offset holding text, NUL-padded
WithSizeField(buf, offset, text) ==
    [i \in 1..Len(buf) |->
        IF i \in (offset + 125)..(offset + 136)
        THEN (IF i - offset - 124 <= Len(text)
              THEN ByteOfChar(CharAt(text, i - offset - 124)) ELSE 0)
        ELSE buf[i]]

\* typeflag bytes: NUL, '0', '1' (link), '2' (symlink), '5' (directory),
\* 'g' (extended header)
TypeFlags == {0, 48, 49, 50, 53, 103}

\* buf with the typeflag byte of the header at offset replaced
WithTypeFlag(buf, offset, flag) == [buf EXCEPT ![offset + 157] = flag]

\* archives of other tools, made with createTar: an entry outside any
\* directory, entries under an absolute path and under "./", a directory of
\* two levels
UntarForeign ==
    {CreateTar(e, 0) :
        e \in {<<[name |-> "course.xml", data |-> TextEncode("<a/>\n")]>>,
               <<[name |-> "/course/course.xml", data |-> TextEncode("<a/>\n")]>>,
               <<[name |-> "./course/course.xml", data |-> TextEncode("<a/>\n")],
                 [name |-> "notes.txt", data |-> TextEncode("x")]>>,
               <<[name |-> "top/course/html/a.html", data |-> TextEncode("<p>x</p>\n")]>>}}

\* the buffers handed to extractTarGz, as gzip containers
UntarBlobs ==
    {GzipSync(SubSeq(b, 1, n)) : b \in UntarBases, n \in CutLengths}
    \cup {GzipSync(WithSizeField(b, o, t)) :
            b \in UntarBases, o \in {0, BlockSize}, t \in SizeTexts}
    \cup {GzipSync(WithTypeFlag(b, o, f)) :
            b \in UntarBases, o \in {0, BlockSize}, f \in TypeFlags}
    \cup {GzipSync(b) : b \in UntarForeign}

UntarInit ==
    /\ tfiles = <<>>
    /\ tmtime = 0
    /\ tpc = "packed"
    /\ tblob \in UntarBlobs
    /\ theaders = <<>>
    /\ tdata = <<>>
    /\ toffset = 0
    /\ tout = <<>>
    /\ thdrArgs = <<>>
    /\ thdr = <<>>

\* C12: on every decompressed buffer, cut short or with any text in a size
\* field, the walk of extractTar ends without raising and returns the entries
\* read so far: every iteration of its loop moves the offset forward by at
\* least 512 bytes.
WalkAdvances ==
    (tpc = "walk" /\ TarWalkOn(tdata, toffset))
        => TarWalkOffset(tdata, toffset) >= toffset + BlockSize

\* a path without its first component: what follows the first '/', nothing
\* for a path of one component
FirstComponentRemoved(path) ==
    IF IndexOf(path, "/", 1) = 0 THEN "" ELSE Suffix(path, IndexOf(path, "/", 1) + 1)

\* C26: in extractTar an entry is placed in the output map only if its
\* typeflag byte is 0 or ASCII '0'; an entry with any other typeflag
\* (directories included) adds nothing, yet the walk still skips its declared
\* size; every extracted path has its first path component removed before it
\* is stored, so no stored path keeps the top-level directory.
ExtractedEntries ==
    (tpc = "walk" /\ TarWalkOn(tdata, toffset)) =>
        /\ tdata[toffset + 157] \notin {0, 48} =>
              /\ TarWalkFiles(tdata, toffset, tout) = tout
              /\ TarWalkOffset(tdata, toffset)
                    = toffset + BlockSize
                        + CeilDiv(TarHeaderAt(tdata, toffset).size, BlockSize) * BlockSize
        /\ TarWalkFiles(tdata, toffset, tout) # tout =>
              /\ tdata[toffset + 157] \in {0, 48}
              /\ MapKeys(TarWalkFiles(tdata, toffset, tout))
                    = MapKeys(tout)
                        \cup {FirstComponentRemoved(TarHeaderAt(tdata, toffset).fullName)}

-----------------------------------------------------------------------------
(* Properties of the tar codec.                                            *)

\* C1: packing an entry map with generateTarGz and unpacking the result with
\* extractTarGz returns a map with the same paths and, for every path, the
\* same content (entries with empty content and entries whose prefixed path
\* is longer than 100 bytes included).
TarRoundTrip == tpc = "done" => SameMap(tout, tfiles)

\* the value of the checksum field of a header when its first six bytes are
\* octal digits, -1 otherwise
ChecksumFieldValue(h) ==
    IF \A i \in 149..154 : h[i] \in 48..55
    THEN (h[149] - 48) * 32768 + (h[150] - 48) * 4096 + (h[151] - 48) * 512
            + (h[152] - 48) * 64 + (h[153] - 48) * 8 + (h[154] - 48)
    ELSE -1

\* the byte sum of a header with its checksum field read as eight spaces
BlankedSum(h) ==
    SumRange([i \in 1..Len(h) |-> IF i \in 149..156 THEN 32 ELSE h[i]], 1, Len(h))

ChecksumValid(h) ==
    /\ Len(h) = BlockSize
    /\ ChecksumFieldValue(h) = BlankedSum(h)
    /\ h[155] = 0
    /\ h[156] = 32

\* C5: in every header block written by createTarHeader (file or directory)
\* the checksum field holds, as 6 octal digits followed by NUL and a space,
\* the sum of all 512 header bytes with the checksum bytes taken as spaces.
HeaderChecksums ==
    /\ \A i \in 1..Len(theaders) : ChecksumValid(theaders[i].bytes)
    /\ thdr # <<>> => ChecksumValid(thdr)

\* C5 witness: an archive with a directory header and the header of a file of
\* more than one block whose name is longer than the name field
HeaderChecksumsWitness ==
    \E i, j \in 1..Len(theaders) :
        /\ theaders[i].isDir
        /\ ~theaders[j].isDir
        /\ theaders[j].size > BlockSize
        /\ Len(theaders[j].name) > 100

-----------------------------------------------------------------------------
(* buildHierarchy as a state machine: two calls in a row on the same rows  *)
(* and the same lookup, one step per row.                                  *)

HierRowSet ==
    {[chapter |-> "A", sequential |-> "S", vertical |-> "U", blockType |-> "text", blockId |-> "t1"],
     [chapter |-> "A", sequential |-> "S", vertical |-> "U", blockType |-> "video", blockId |-> "v1"],
     [chapter |-> "A", sequential |-> "S", vertical |-> "V", blockType |-> "text", blockId |-> "t1"],
     [chapter |-> "A", sequential |-> "T", vertical |-> "U", blockType |-> "problem", blockId |-> "p1"],
     [chapter |-> "B", sequential |-> "S", vertical |-> "U", blockType |-> "text", blockId |-> "t1"],
     [chapter |-> "B", sequential |-> "T", vertical |-> "V", blockType |-> "openresponse", blockId |-> "o1"]}

RECURSIVE SeqsOf(_, _)
\* the sequences of length n over S
SeqsOf(S, n) ==
    IF n = 0 THEN {<<>>} ELSE {Append(q, x) : q \in SeqsOf(S, n - 1), x \in S}

SeqsUpTo(S, n) == UNION {SeqsOf(S, k) : k \in 0..n}

HierInit ==
    /\ hrows \in SeqsUpTo(HierRowSet, MaxRows)
    /\ hidMap \in {<<>>, BuildIdMap(hrows, 1)}
    /\ hinput = <<hrows, hidMap>>
    /\ hpc = "start"
    /\ hidx = 0
    /\ hstate = BuildStart
    /\ hresults = <<>>

HierIdle ==
    /\ hrows = <<>>
    /\ hidMap = <<>>
    /\ hinput = <<>>
    /\ hpc = "idle"
    /\ hidx = 0
    /\ hstate = BuildStart
    /\ hresults = <<>>

\* buildHierarchy is called: chapters and chapterMap are created empty
HierCall ==
    /\ hpc = "start"
    /\ Len(hresults) < 2
    /\ hstate' = BuildStart
    /\ hidx' = 0
    /\ hpc' = "loop"
    /\ UNCHANGED <<hrows, hidMap, hinput, hresults>>
    /\ UNCHANGED hierOthers

\* one iteration of the loop over the rows
HierRow ==
    /\ hpc = "loop"
    /\ hidx < Len(hrows)
    /\ hstate' = BuildRow(hstate, hrows[hidx + 1], hidMap)
    /\ hidx' = hidx + 1
    /\ UNCHANGED <<hrows, hidMap, hinput, hpc, hresults>>
    /\ UNCHANGED hierOthers

\* the loop is over: the temporary maps are deleted and the tree is returned
HierReturn ==
    /\ hpc = "loop"
    /\ hidx = Len(hrows)
    /\ hresults' = Append(hresults, BuildCleanup(hstate.chapters))
    /\ hpc' = IF Len(hresults) = 1 THEN "done" ELSE "start"
    /\ UNCHANGED <<hrows, hidMap, hinput, hidx, hstate>>
    /\ UNCHANGED hierOthers

-----------------------------------------------------------------------------
(* Properties of buildHierarchy.                                           *)

RECURSIVE FirstOccurrences(_)
\* the distinct elements of a sequence, each at the place of its first occurrence
FirstOccurrences(q) ==
    IF q = <<>> THEN <<>>
    ELSE LET front == FirstOccurrences(SubSeq(q, 1, Len(q) - 1))
             x     == q[Len(q)]
         IN  IF \E i \in 1..Len(front) : front[i] = x THEN front ELSE Append(front, x)

\* the rows of a chapter, of a sequential of it, of a vertical of that, in input order
RowsOfChapter(rows, c) == SelectSeq(rows, LAMBDA r : r.chapter = c)

RowsOfSequential(rows, c, q) ==
    SelectSeq(rows, LAMBDA r : r.chapter = c /\ r.sequential = q)

RowsOfVertical(rows, c, q, v) ==
    SelectSeq(rows, LAMBDA r : r.chapter = c /\ r.sequential = q /\ r.vertical = v)

NamesOf(nodes) == [i \in 1..Len(nodes) |-> nodes[i].name]

\* tree has one node per distinct tuple of rows, at the place of its first
\* occurrence, and every vertical holds the blocks of its rows in input order
TreeOfRows(tree, rows) ==
    /\ NamesOf(tree) = FirstOccurrences([i \in 1..Len(rows) |-> rows[i].chapter])
    /\ \A c \in 1..Len(tree) :
        LET chRows == RowsOfChapter(rows, tree[c].name)
        IN  /\ NamesOf(tree[c].sequentials)
                  = FirstOccurrences([i \in 1..Len(chRows) |-> chRows[i].sequential])
            /\ \A q \in 1..Len(tree[c].sequentials) :
                LET seq     == tree[c].sequentials[q]
                    seqRows == RowsOfSequential(rows, tree[c].name, seq.name)
                IN  /\ NamesOf(seq.verticals)
                          = FirstOccurrences([i \in 1..Len(seqRows) |-> seqRows[i].vertical])
                    /\ \A v \in 1..Len(seq.verticals) :
                        LET vRows == RowsOfVertical(rows, tree[c].name, seq.name,
                                                    seq.verticals[v].name)
                        IN  seq.verticals[v].blocks
                              = [i \in 1..Len(vRows) |->
                                    [type |-> vRows[i].blockType,
                                     blockId |-> vRows[i].blockId]]

\* C6: buildHierarchy produces exactly one Chapter per distinct chapter name,
\* one Sequential per distinct (chapter, sequential) and one Vertical per
\* distinct (chapter, sequential, vertical), each at the position of its first
\* occurrence; every row contributes one block to the Vertical of its tuple
\* and the blocks of a Vertical are in input order, also when rows of one
\* tuple are separated by rows of other tuples.
OneNodePerTuple ==
    /\ hpc = "loop" => TreeOfRows(BuildCleanup(hstate.chapters), SubSeq(hrows, 1, hidx))
    /\ \A k \in 1..Len(hresults) : TreeOfRows(hresults[k], hrows)

\* C6 witness: a returned tree for three rows, the first and the third of one
\* tuple and the second of another
OneNodePerTupleWitness ==
    /\ hpc = "done"
    /\ Len(hrows) = 3
    /\ VertKey(hrows[1]) = VertKey(hrows[3])
    /\ VertKey(hrows[1]) # VertKey(hrows[2])
    /\ hrows[1] # hrows[3]

-----------------------------------------------------------------------------
(* parser.js: a workbook is a sequence of worksheets [name, rows]; a row is *)
(* a sequence of cell texts, "" for a cell without value; row 1 of a table  *)
(* sheet is its header row.                                                 *)

\* the replacement of /\s+/g by r: the first white space of a run becomes r,
\* the rest of the run goes
ReplaceSpaceRuns(s, r) ==
    ConcatRange(LAMBDA i : IF ~IsSpace(CharAt(s, i)) THEN CharAt(s, i)
                           ELSE IF i > 1 /\ IsSpace(CharAt(s, i - 1)) THEN ""
                           ELSE r,
                1, Len(s))

\* cellValue(cell) for a cell that holds text
CellValue(v) == Trim(v)

\* row.getCell(col): the cell text, "" beyond the last cell of the row
GetCell(row, col) == IF col >= 1 /\ col <= Len(row) THEN row[col] ELSE ""

\* the indices of the worksheets whose name is the target
SheetsNamed(wb, target) == {i \in 1..Len(wb) : Trim(ToLowerCase(wb[i].name)) = target}

\* findSheet(wb, name): the index of the first worksheet of that name, 0 if none
FindSheet(wb, name) == MinOrZero(SheetsNamed(wb, Trim(ToLowerCase(name))))

\* the row numbers eachRow visits: the rows that hold a value
EachRow(sheet) ==
    {n \in 1..Len(sheet.rows) : \E c \in 1..Len(sheet.rows[n]) : sheet.rows[n][c] # ""}

\* getHeaders(sheet): pairs of column number and normalised header name, one
\* for every cell of row 1 that holds a value
GetHeaders(sheet) ==
    IF Len(sheet.rows) = 0 THEN <<>>
    ELSE LET named(p) == p[2] # ""
         IN  SelectSeq(
                [col \in 1..Len(sheet.rows[1]) |->
                    <<col, ReplaceSpaceRuns(ToLowerCase(CellValue(sheet.rows[1][col])), "_")>>]
                  \o <<>>,
                named)

\* rowToObject(row, headers): obj[headerName] is set for every header in turn
RowToObject(row, headers) ==
    MapMerge(<<>>,
        [i \in 1..Len(headers) |-> <<headers[i][2], CellValue(GetCell(row, headers[i][1]))>>])

\* objStr(row, key), given the normalised key
ObjStrAt(row, lowerKey, key) ==
    IF MapHas(row, lowerKey) THEN Trim(MapGet(row, lowerKey))
    ELSE IF MapHas(row, key) THEN Trim(MapGet(row, key))
    ELSE ""

\* objStr(row, key)
ObjStr(row, key) == ObjStrAt(row, ReplaceSpaceRuns(ToLowerCase(key), "_"), key)

\* a || b on texts
OrElse(a, b) == IF a # "" THEN a ELSE b

\* the callback of infoSheet.eachRow for a row of the given key and value: the
\* pair it sets, <<"", "">> when it sets none
InfoPair(visited, key, value) ==
    IF visited /\ key # "" /\ value # "" THEN <<ToLowerCase(key), value>> ELSE <<"", "">>

\* the loop that fills infoMap from the rows of Course Info
InfoMapOf(sheet) ==
    LET kept(p) == p[1] # ""
    IN  MapMerge(<<>>,
            SelectSeq([n \in 1..Len(sheet.rows) |->
                          InfoPair(n \in EachRow(sheet),
                                   CellValue(GetCell(sheet.rows[n], 1)),
                                   CellValue(GetCell(sheet.rows[n], 2)))] \o <<>>,
                      kept))

\* the fields of data.info read from infoMap
InfoOf(infoMap) ==
    [courseName |-> MapGet(infoMap, "course name"),
     org        |-> MapGet(infoMap, "organization"),
     courseId   |-> MapGet(infoMap, "course id"),
     run        |-> MapGet(infoMap, "run"),
     language   |-> OrElse(MapGet(infoMap, "language"), "en"),
     startDate  |-> MapGet(infoMap, "start date"),
     endDate    |-> MapGet(infoMap, "end date"),
     selfPaced  |-> ToLowerCase(OrElse(MapGet(infoMap, "self-paced"), "yes")) = "yes"]

\* the errors pushed for the required fields of data.info
InfoErrors(info) ==
    (IF info.courseName = "" THEN <<"Course Info: \"Course Name\" is required.">> ELSE <<>>)
    \o (IF info.org = "" THEN <<"Course Info: \"Organization\" is required.">> ELSE <<>>)
    \o (IF info.courseId = "" THEN <<"Course Info: \"Course ID\" is required.">> ELSE <<>>)
    \o (IF info.run = "" THEN <<"Course Info: \"Run\" is required.">> ELSE <<>>)

\* the branch of parseWorkbook for a Course Info sheet that exists
InfoStep(st, info) ==
    [data |-> [st.data EXCEPT !.info = info], errors |-> st.errors \o InfoErrors(info)]

\* parseWorkbook, sheet 1, given the index of the sheet
ParseInfoAt(wb, i, st) ==
    IF i = 0
    THEN [st EXCEPT !.errors = Append(@, "Missing sheet: \"Course Info\"")]
    ELSE InfoStep(st, InfoOf(InfoMapOf(wb[i])))

\* sheet 1 without the report of a missing sheet
ParseInfoSilent(wb, st) ==
    IF FindSheet(wb, "Course Info") = 0 THEN st
    ELSE ParseInfoAt(wb, FindSheet(wb, "Course Info"), st)

\* parseWorkbook, sheet 1: st is [data, errors]
ParseInfo(wb, st) == ParseInfoAt(wb, FindSheet(wb, "Course Info"), st)

ValidTypes == <<"text", "video", "problem", "openresponse">>

RowLabel(sheetName, rowNumber) == sheetName \o " row " \o ToRadix(rowNumber, 10)

Required(sheetName, rowNumber, column) ==
    RowLabel(sheetName, rowNumber) \o ": \"" \o column \o "\" is required."

\* errors.push(msg); return
PushError(st, msg) == [st EXCEPT !.errors = Append(@, msg)]

\* the callback of structSheet.eachRow, from the five cells it has read
StructureRowOf(st, rowNumber, chapter, sequential, vertical, blockType, blockId) ==
    IF chapter = "" THEN PushError(st, Required("Structure", rowNumber, "chapter"))
    ELSE IF sequential = ""
    THEN PushError(st, Required("Structure", rowNumber, "sequential"))
    ELSE IF vertical = "" THEN PushError(st, Required("Structure", rowNumber, "vertical"))
    ELSE IF blockType = ""
    THEN PushError(st, Required("Structure", rowNumber, "block_type"))
    ELSE IF blockId = "" THEN PushError(st, Required("Structure", rowNumber, "block_id"))
    ELSE IF \A i \in 1..Len(ValidTypes) : ValidTypes[i] # blockType
    THEN PushError(st, RowLabel("Structure", rowNumber) \o ": Invalid block_type \""
                    \o blockType \o "\". Must be one of: " \o Join(ValidTypes, ", "))
    ELSE [st EXCEPT !.data.structure =
            Append(@, [chapter |-> chapter, sequential |-> sequential,
                       vertical |-> vertical, blockType |-> blockType,
                       blockId |-> blockId])]

\* the callback of structSheet.eachRow with block_type as it is typed
StructureRowStepAsTyped(st, r, rowNumber) ==
    StructureRowOf(st, rowNumber, ObjStr(r, "chapter"), ObjStr(r, "sequential"),
                   ObjStr(r, "vertical"), ObjStr(r, "block_type"),
                   ObjStr(r, "block_id"))

\* the callback of structSheet.eachRow for one row
StructureRowStep(st, r, rowNumber) ==
    StructureRowOf(st, rowNumber, ObjStr(r, "chapter"), ObjStr(r, "sequential"),
                   ObjStr(r, "vertical"), ToLowerCase(ObjStr(r, "block_type")),
                   ObjStr(r, "block_id"))

\* the callback of textSheet.eachRow, from the block id it has read
TextRowOf(st, r, rowNumber, blockId) ==
    IF blockId = "" THEN PushError(st, Required("Text Blocks", rowNumber, "block_id"))
    ELSE [st EXCEPT !.data.textBlocks =
            MapSet(@, blockId,
                [blockId |-> blockId,
                 title   |-> OrElse(ObjStr(r, "title"), "Text"),
                 content |-> ObjStr(r, "content")])]

\* the callback of textSheet.eachRow for one row
TextRowStep(st, r, rowNumber) == TextRowOf(st, r, rowNumber, ObjStr(r, "block_id"))

\* the callback of videoSheet.eachRow, from the block id it has read
VideoRowOf(st, r, rowNumber, blockId) ==
    IF blockId = "" THEN PushError(st, Required("Videos", rowNumber, "block_id"))
    ELSE [st EXCEPT !.data.videoBlocks =
            MapSet(@, blockId,
                [blockId   |-> blockId,
                 title     |-> OrElse(ObjStr(r, "title"), "Video"),
                 youtubeId |-> ObjStr(r, "youtube_id"),
                 html5Url  |-> ObjStr(r, "html5_url"),
                 startTime |-> OrElse(ObjStr(r, "start_time"), "00:00:00"),
                 endTime   |-> OrElse(ObjStr(r, "end_time"), "00:00:00")])]

\* the callback of videoSheet.eachRow for one row
VideoRowStep(st, r, rowNumber) == VideoRowOf(st, r, rowNumber, ObjStr(r, "block_id"))

ChoiceLetters == <<"a", "b", "c", "d", "e", "f">>

\* separators without the semicolon and the white space
IsCorrectSepCommaOnly(c) == c = ","

\* the separators of the correct list: /[,;\s]+/
IsCorrectSep(c) == c \in {",", ";"} \/ IsSpace(c)

\* correctRaw.split(/[,;\s]+/).filter(Boolean), as the Set built from it
CorrectSetOf(correctRaw) ==
    LET starts == {i \in 1..Len(correctRaw) :
                     /\ ~IsCorrectSep(CharAt(correctRaw, i))
                     /\ (i = 1 \/ IsCorrectSep(CharAt(correctRaw, i - 1)))}
        endOf(i) == SetMin({j \in i..Len(correctRaw) :
                              j = Len(correctRaw) \/ IsCorrectSep(CharAt(correctRaw, j + 1))})
    IN  {SubSeq(correctRaw, i, endOf(i)) : i \in starts}

\* the loop over choiceLetters that fills choices
ChoicesOf(r, correctSet) ==
    LET hasText(c) == c.text # ""
    IN  SelectSeq(
            [k \in 1..Len(ChoiceLetters) |->
                [text    |-> ObjStr(r, "choice_" \o ChoiceLetters[k]),
                 correct |-> ToUpperCase(ChoiceLetters[k]) \in correctSet,
                 hint    |-> ObjStr(r, "hint_" \o ChoiceLetters[k])]] \o <<>>,
            hasText)

\* the callback of probSheet.eachRow without its test for a correct choice
ProblemRowOfAnyMarks(st, r, rowNumber, blockId, choices) ==
    IF blockId = "" THEN PushError(st, Required("Problems", rowNumber, "block_id"))
    ELSE IF Len(choices) < 2
    THEN PushError(st, RowLabel("Problems", rowNumber)
                        \o ": At least 2 choices are required.")
    ELSE [st EXCEPT !.data.problemBlocks =
            MapSet(@, blockId,
                [blockId      |-> blockId,
                 title        |-> OrElse(ObjStr(r, "title"), blockId),
                 questionText |-> ObjStr(r, "question_text"),
                 choices      |-> choices,
                 explanation  |-> ObjStr(r, "explanation"),
                 showAnswer   |-> OrElse(ObjStr(r, "show_answer"), "attempted")])]

\* the callback of probSheet.eachRow, from the block id and the choices
ProblemRowOf(st, r, rowNumber, blockId, choices) ==
    IF blockId = "" THEN PushError(st, Required("Problems", rowNumber, "block_id"))
    ELSE IF Len(choices) < 2
    THEN PushError(st, RowLabel("Problems", rowNumber)
                        \o ": At least 2 choices are required.")
    ELSE IF \A i \in 1..Len(choices) : ~choices[i].correct
    THEN PushError(st, RowLabel("Problems", rowNumber) \o ": No correct answer specified.")
    ELSE [st EXCEPT !.data.problemBlocks =
            MapSet(@, blockId,
                [blockId      |-> blockId,
                 title        |-> OrElse(ObjStr(r, "title"), blockId),
                 questionText |-> ObjStr(r, "question_text"),
                 choices      |-> choices,
                 explanation  |-> ObjStr(r, "explanation"),
                 showAnswer   |-> OrElse(ObjStr(r, "show_answer"), "attempted")])]

\* the callback of probSheet.eachRow for one row
ProblemRowStep(st, r, rowNumber) ==
    ProblemRowOf(st, r, rowNumber, ObjStr(r, "block_id"),
                 ChoicesOf(r, CorrectSetOf(ToUpperCase(ObjStr(r, "correct")))))

\* const [label, pts] = pair.split('='), then the option made of them
OptionOfParts(parts) ==
    [label  |-> Trim(parts[1]),
     points |-> IF Len(parts) > 1 THEN ParseIntOr0(parts[2], 0) ELSE 0]

\* one pair of a criterion's option list: "label=points"
OptionOf(pair) == OptionOfParts(Split(pair, "="))

\* the options of the pairs of an option list
OptionsOfPairs(pairs) == [i \in 1..Len(pairs) |-> OptionOf(pairs[i])]

\* optStr.split(';').map(...)
OptionsOf(optStr) == OptionsOfPairs(Split(optStr, ";"))

\* the first count criteria of a row
CriteriaUpTo(r, count) ==
    [c \in 1..count |->
        [name    |-> ObjStr(r, "criterion_" \o ToRadix(c, 10) \o "_name"),
         options |-> OptionsOf(ObjStr(r, "criterion_" \o ToRadix(c, 10) \o "_options"))]]
        \o <<>>

\* the criteria of a row that lack a name or an option list
CriteriaMissing(r) ==
    {c \in 1..10 : \/ ObjStr(r, "criterion_" \o ToRadix(c, 10) \o "_name") = ""
                   \/ ObjStr(r, "criterion_" \o ToRadix(c, 10) \o "_options") = ""}

\* the loop over criterion_1 .. criterion_10 that fills criteria: it breaks at
\* the first criterion that lacks a name or an option list
CriteriaOf(r) == CriteriaUpTo(r, MinOrZero(CriteriaMissing(r) \cup {11}) - 1)

\* the callback of oraSheet.eachRow, from the block id it has read
OpenResponseRowOf(st, r, rowNumber, blockId) ==
    IF blockId = "" THEN PushError(st, Required("Open Response", rowNumber, "block_id"))
    ELSE [st EXCEPT !.data.openResponseBlocks =
            MapSet(@, blockId,
                [blockId        |-> blockId,
                 title          |-> OrElse(ObjStr(r, "title"), blockId),
                 prompt         |-> ObjStr(r, "prompt"),
                 criteria       |-> CriteriaOf(r),
                 assessmentType |-> OrElse(ObjStr(r, "assessment_type"), "self")])]

\* the callback of oraSheet.eachRow for one row
OpenResponseRowStep(st, r, rowNumber) ==
    OpenResponseRowOf(st, r, rowNumber, ObjStr(r, "block_id"))

\* the callback of eachRow of the table sheet of the given kind
RowStep(kind, st, r, rowNumber) ==
    CASE kind = "Structure"     -> StructureRowStep(st, r, rowNumber)
      [] kind = "Text Blocks"   -> TextRowStep(st, r, rowNumber)
      [] kind = "Videos"        -> VideoRowStep(st, r, rowNumber)
      [] kind = "Problems"      -> ProblemRowStep(st, r, rowNumber)
      [] kind = "Open Response" -> OpenResponseRowStep(st, r, rowNumber)

\* one row of sheet.eachRow(...) of a table sheet: the header row is skipped
SheetRow(kind, sheet, headers, n, st) ==
    IF n = 1 \/ n \notin EachRow(sheet) THEN st
    ELSE RowStep(kind, st, RowToObject(sheet.rows[n], headers), n)

RECURSIVE SheetRowsFrom(_, _, _, _, _)
\* sheet.eachRow(...) of a table sheet
SheetRowsFrom(kind, sheet, headers, n, st) ==
    IF n > Len(sheet.rows) THEN st
    ELSE SheetRowsFrom(kind, sheet, headers, n + 1, SheetRow(kind, sheet, headers, n, st))

\* parseWorkbook, sheets 2 to 6, given the index of the sheet
ParseSheetAt(kind, wb, i, st) ==
    IF i = 0
    THEN IF kind = "Structure" THEN PushError(st, "Missing sheet: \"Structure\"") ELSE st
    ELSE SheetRowsFrom(kind, wb[i], GetHeaders(wb[i]), 1, st)

\* parseWorkbook, sheets 2 to 6: only Structure is reported when missing
ParseSheet(kind, wb, st) == ParseSheetAt(kind, wb, FindSheet(wb, kind), st)

\* the error of the cross-validation pass for one row, <<>> if the block exists
CrossError(data, row) ==
    IF row.blockType = "text" /\ ~MapHas(data.textBlocks, row.blockId)
    THEN <<"Structure references text block \"" \o row.blockId
            \o "\" but it's not defined in \"Text Blocks\" sheet.">>
    ELSE IF row.blockType = "video" /\ ~MapHas(data.videoBlocks, row.blockId)
    THEN <<"Structure references video block \"" \o row.blockId
            \o "\" but it's not defined in \"Videos\" sheet.">>
    ELSE IF row.blockType = "problem" /\ ~MapHas(data.problemBlocks, row.blockId)
    THEN <<"Structure references problem block \"" \o row.blockId
            \o "\" but it's not defined in \"Problems\" sheet.">>
    ELSE IF row.blockType = "openresponse" /\ ~MapHas(data.openResponseBlocks, row.blockId)
    THEN <<"Structure references open response block \"" \o row.blockId
            \o "\" but it's not defined in \"Open Response\" sheet.">>
    ELSE <<>>

RECURSIVE CrossErrorsFrom(_, _)
CrossErrorsFrom(data, i) ==
    IF i > Len(data.structure) THEN <<>>
    ELSE CrossError(data, data.structure[i]) \o CrossErrorsFrom(data, i + 1)

\* parseWorkbook, the cross-validation pass
CrossValidate(st) == [st EXCEPT !.errors = @ \o CrossErrorsFrom(st.data, 1)]

ParseStart == [data |-> CreateCourseData, errors |-> <<>>]

\* the result of the six sheet passes put together: the collection each pass
\* has written, and the errors in the order of the passes
SheetPasses(info, structure, texts, videos, problems, oras) ==
    [data   |-> [info               |-> info.data.info,
                 structure          |-> structure.data.structure,
                 textBlocks         |-> texts.data.textBlocks,
                 videoBlocks        |-> videos.data.videoBlocks,
                 problemBlocks      |-> problems.data.problemBlocks,
                 openResponseBlocks |-> oras.data.openResponseBlocks],
     errors |-> info.errors \o structure.errors \o texts.errors
                    \o videos.errors \o problems.errors \o oras.errors]

\* parseWorkbook(buffer): { data, errors }.  Each of the six sheet passes
\* writes the one collection of data that is its own and pushes onto errors,
\* and reads nothing an earlier pass wrote; so each pass is taken from the
\* empty result, and the collections and the error lists are put together in
\* the order of the passes before the cross-validation pass runs
ParseWorkbook(wb) ==
    CrossValidate(
        SheetPasses(ParseInfo(wb, ParseStart),
                    ParseSheet("Structure", wb, ParseStart),
                    ParseSheet("Text Blocks", wb, ParseStart),
                    ParseSheet("Videos", wb, ParseStart),
                    ParseSheet("Problems", wb, ParseStart),
                    ParseSheet("Open Response", wb, ParseStart)))

-----------------------------------------------------------------------------
(* parseWorkbook as a state machine: one step per sheet, then the          *)
(* cross-validation pass.                                                  *)

StructureHeader == <<"chapter", "sequential", "vertical", "block_type", "block_id">>

TextHeader == <<"block_id", "title", "content">>

VideoHeader == <<"block_id", "title", "youtube_id", "html5_url", "start_time", "end_time">>

ProblemHeader ==
    <<"block_id", "title", "question_text",
      "choice_a", "choice_b", "choice_c", "choice_d", "choice_e", "choice_f", "correct",
      "hint_a", "hint_b", "hint_c", "hint_d", "hint_e", "hint_f",
      "explanation", "show_answer">>

OraHeader ==
    <<"block_id", "title", "prompt", "criterion_1_name", "criterion_1_options",
      "criterion_2_name", "criterion_2_options", "assessment_type">>

InfoRowsStd ==
    <<<<"Field", "Value">>, <<"Course Name", "Demo Course">>, <<"Organization", "DemoX">>,
      <<"Course ID", "D101">>, <<"Run", "2024_T1">>, <<"Self-Paced", "No">>>>

InfoRowSets ==
    {InfoRowsStd,
     <<>>,
     <<<<"course name", " Demo ">>, <<"ORGANIZATION", "DemoX">>, <<"Run", "r1">>>>,
     <<<<"Course Name", "">>, <<"", "x">>, <<"Course ID", "D101">>, <<"Language", "es">>>>}

StructureRowSet ==
    {<<"Intro", "Week 1", "Unit 1", "text", "t1">>,
     <<"Intro", "Week 1", "Unit 2", " Text ", " t1 ">>,
     <<"Intro", "Week 1", "Unit 1", "text", "t9">>,
     <<"Intro", "Week 2", "Unit 1", "text", "t9">>,
     <<"Intro", "Week 1", "Unit 1", "video", "v9">>,
     <<"Intro", "Week 1", "Unit 1", "problem", "p1">>,
     <<"Intro", "Week 1", "Unit 1", "openresponse", "t1">>,
     <<"", "Week 1", "Unit 1", "text", "t1">>,
     <<"Intro", " ", "Unit 1", "text", "t1">>,
     <<"Intro", "Week 1", "", "text", "t1">>,
     <<"Intro", "Week 1", "Unit 1", "", "t1">>,
     <<"Intro", "Week 1", "Unit 1", "text", "">>,
     <<"", "", "", "", "t1">>,
     <<"Intro", "Week 1", "Unit 1", "VIDEO", "v1">>,
     <<"Intro", "Week 1", "Unit 1", "quiz", "q1">>}

StructureRowsStd ==
    <<<<"Intro", "Week 1", "Unit 1", "text", "t1">>,
      <<"Intro", "Week 1", "Unit 1", "video", "v1">>,
      <<"Intro", "Week 1", "Unit 2", "problem", "p1">>,
      <<"Intro", "Week 2", "Unit 1", "openresponse", "o1">>>>

TextRowSet ==
    {<<"t1", "Welcome", "<p>Hello</p>">>, <<"t1", "", "">>, <<"", "No id", "x">>,
     <<"t2", "Second", "plain text">>}

TextRowsStd == <<<<"t1", "Welcome", "<p>Hello</p>">>>>

VideoRowSet ==
    {<<"v1", "Clip", "abc123", "", "00:00:05", "00:01:00">>,
     <<"v1", "", "", "https://x.org/a.mp4", "", "">>,
     <<"", "No id", "abc123", "", "", "">>}

VideoRowsStd == <<<<"v1", "Clip", "abc123", "", "00:00:05", "00:01:00">>>>

AllSix == <<"one", "two", "three", "four", "five", "six">>

\* a Problems row: id, the six choice cells, the correct list; every choice
\* has the hint "hint-" and its letter
ProblemRow(id, choices, correct) ==
    <<id, "Quiz", "Which?">> \o choices \o <<correct>>
        \o [k \in 1..6 |-> "hint-" \o ChoiceLetters[k]]
        \o <<"Because.", "">>

ProblemRowSet ==
    {ProblemRow("p1", AllSix, "B,D"),
     ProblemRow("p1", AllSix, "b;d"),
     ProblemRow("p1", AllSix, " a  F "),
     ProblemRow("p2", AllSix, "A,,c;\te"),
     ProblemRow("p2", AllSix, "AB"),
     ProblemRow("p2", AllSix, ""),
     ProblemRow("p2", AllSix, "g,B"),
     ProblemRow("p2", <<"one", "", "three", "", "", "six">>, "c"),
     ProblemRow("p1", <<"one", "", "three", "", "", "six">>, "B"),
     ProblemRow("p2", <<"", "two", "", "four", " ", "">>, "D, E"),
     ProblemRow("p2", <<"one", "", "", "", "", "">>, "A"),
     ProblemRow("p1", <<"", "two", "", "", "", "">>, "A"),
     ProblemRow("", AllSix, "A")}

ProblemRowsStd == <<ProblemRow("p1", AllSix, "B,D")>>

OraRowSet ==
    {<<"o1", "Essay", "Discuss.", "Depth", "Superficial=0;Adequate=1", "", "", "peer">>,
     <<"o1", "", "", "Ideas", "Poor=0;Fair=1;Good=2", "Style", " Plain = 3 ;Rich=05", "">>,
     <<"o2", "Essay", "Discuss.", "Depth", "Bad=-1;Fine=1", "", "", "staff">>,
     <<"o2", "Essay", "Discuss.", "Depth", "Only;Half=2.5;=4;Twice=1=2", "", "", "self">>,
     <<"o2", "Essay", "Discuss.", "", "A=1", "Style", "B=2", "self">>,
     <<"", "No id", "x", "Depth", "A=1", "", "", "">>}

OraRowsStd ==
    <<<<"o1", "Essay", "Discuss.", "Depth", "Superficial=0;Adequate=1", "", "", "peer">>>>

\* the worksheets of a workbook with the standard headers
Workbook(info, structure, text, video, problems, ora) ==
    <<[name |-> "Course Info", rows |-> info],
      [name |-> "Structure", rows |-> <<StructureHeader>> \o structure],
      [name |-> "Text Blocks", rows |-> <<TextHeader>> \o text],
      [name |-> "Videos", rows |-> <<VideoHeader>> \o video],
      [name |-> "Problems", rows |-> <<ProblemHeader>> \o problems],
      [name |-> "Open Response", rows |-> <<OraHeader>> \o ora]>>

WorkbookStd ==
    Workbook(InfoRowsStd, StructureRowsStd, TextRowsStd, VideoRowsStd,
             ProblemRowsStd, OraRowsStd)

\* the standard workbook without some of its sheets, in one of two spellings
\* of the sheet names
WorkbooksBySheets ==
    {SelectSeq([i \in 1..6 |->
                  [WorkbookStd[i] EXCEPT !.name = IF up THEN " " \o ToUpperCase(@) ELSE @]],
               LAMBDA ws : \E i \in keep : WorkbookStd[i].rows = ws.rows) :
        keep \in SUBSET (1..6), up \in BOOLEAN}

\* the workbooks parseWorkbook is run on: one sheet varies, the others are standard
ParseInputs ==
    UNION {
      {Workbook(x, StructureRowsStd, TextRowsStd, VideoRowsStd, ProblemRowsStd, OraRowsStd) :
         x \in InfoRowSets},
      {Workbook(InfoRowsStd, x, TextRowsStd, VideoRowsStd, ProblemRowsStd, OraRowsStd) :
         x \in SeqsUpTo(StructureRowSet, MaxSheetRows)},
      {Workbook(InfoRowsStd, StructureRowsStd, x, VideoRowsStd, ProblemRowsStd, OraRowsStd) :
         x \in SeqsUpTo(TextRowSet, MaxSheetRows)},
      {Workbook(InfoRowsStd, StructureRowsStd, TextRowsStd, x, ProblemRowsStd, OraRowsStd) :
         x \in SeqsUpTo(VideoRowSet, MaxSheetRows)},
      {Workbook(InfoRowsStd, StructureRowsStd, TextRowsStd, VideoRowsStd, x, OraRowsStd) :
         x \in SeqsUpTo(ProblemRowSet, MaxSheetRows)},
      {Workbook(InfoRowsStd, StructureRowsStd, TextRowsStd, VideoRowsStd, ProblemRowsStd, x) :
         x \in SeqsUpTo(OraRowSet, MaxSheetRows)},
      WorkbooksBySheets}

ParseInit ==
    /\ pwb \in ParseInputs
    /\ ppc = "Course Info"
    /\ pst = ParseStart

ParseIdle ==
    /\ pwb = <<>>
    /\ ppc = "idle"
    /\ pst = ParseStart

\* sheet 1 is read
ParseInfoSheet ==
    /\ ppc = "Course Info"
    /\ pst' = ParseInfo(pwb, pst)
    /\ ppc' = "Structure"
    /\ UNCHANGED pwb
    /\ UNCHANGED parseOthers

ParseStructureSheet ==
    /\ ppc = "Structure"
    /\ pst' = ParseSheet("Structure", pwb, pst)
    /\ ppc' = "Text Blocks"
    /\ UNCHANGED pwb
    /\ UNCHANGED parseOthers

ParseTextSheet ==
    /\ ppc = "Text Blocks"
    /\ pst' = ParseSheet("Text Blocks", pwb, pst)
    /\ ppc' = "Videos"
    /\ UNCHANGED pwb
    /\ UNCHANGED parseOthers

ParseVideoSheet ==
    /\ ppc = "Videos"
    /\ pst' = ParseSheet("Videos", pwb, pst)
    /\ ppc' = "Problems"
    /\ UNCHANGED pwb
    /\ UNCHANGED parseOthers

ParseProblemSheet ==
    /\ ppc = "Problems"
    /\ pst' = ParseSheet("Problems", pwb, pst)
    /\ ppc' = "Open Response"
    /\ UNCHANGED pwb
    /\ UNCHANGED parseOthers

ParseOraSheet ==
    /\ ppc = "Open Response"
    /\ pst' = ParseSheet("Open Response", pwb, pst)
    /\ ppc' = "cross"
    /\ UNCHANGED pwb
    /\ UNCHANGED parseOthers

\* the cross-validation pass, after which { data, errors } is returned
ParseCross ==
    /\ ppc = "cross"
    /\ pst' = CrossValidate(pst)
    /\ ppc' = "done"
    /\ UNCHANGED pwb
    /\ UNCHANGED parseOthers

-----------------------------------------------------------------------------
(* Properties of parseWorkbook.                                            *)

\* how many times msg occurs in a list of errors
CountOf(errors, msg) == Cardinality({i \in 1..Len(errors) : errors[i] = msg})

\* the block map a Structure row's block type refers to
BlockMapOf(data, blockType) ==
    CASE blockType = "text"         -> data.textBlocks
      [] blockType = "video"        -> data.videoBlocks
      [] blockType = "problem"      -> data.problemBlocks
      [] blockType = "openresponse" -> data.openResponseBlocks

\* C8: the cross-validation pass of parseWorkbook emits exactly one error for
\* each (blockType, blockId) referenced in Structure but absent from its
\* content map, also when several rows reference the same missing block, and
\* the block is in no block map afterwards.
CrossOneErrorPerBlock ==
    ppc = "done" =>
        \A i \in 1..Len(pst.data.structure) :
            LET row == pst.data.structure[i]
            IN  ~MapHas(BlockMapOf(pst.data, row.blockType), row.blockId) =>
                    /\ CrossError(pst.data, row) # <<>>
                    /\ CountOf(pst.errors, CrossError(pst.data, row)[1]) = 1

\* the data rows of the Problems sheet, with their row numbers
ProblemSheetRows ==
    IF FindSheet(pwb, "Problems") = 0 THEN <<>>
    ELSE pwb[FindSheet(pwb, "Problems")].rows

\* the cell of a Problems row under the given header
ProblemCell(row, header) ==
    Trim(row[CHOOSE c \in 1..Len(ProblemHeader) : ProblemHeader[c] = header])

\* letter k of a..f stands in the correct list on its own, in either case,
\* between separators (comma, semicolon, white space) or the ends of the list
Listed(k, list) ==
    \E i \in 1..Len(list) :
        /\ CharAt(list, i) \in {ChoiceLetters[k], UpperOf[ChoiceLetters[k]]}
        /\ i = 1 \/ CharAt(list, i - 1) \in {",", ";", " ", "\t", "\n", "\r"}
        /\ i = Len(list) \/ CharAt(list, i + 1) \in {",", ";", " ", "\t", "\n", "\r"}

\* the letters whose choice column is filled in a Problems row, in order
FilledChoices(row) ==
    SelectSeq([k \in 1..6 |-> k],
              LAMBDA k : ProblemCell(row, "choice_" \o ChoiceLetters[k]) # "")

\* a Problems row that is accepted: an id, two choices or more, one of them correct
AcceptedProblemRow(row) ==
    /\ ProblemCell(row, "block_id") # ""
    /\ Len(FilledChoices(row)) >= 2
    /\ \E j \in 1..Len(FilledChoices(row)) :
          Listed(FilledChoices(row)[j], ProblemCell(row, "correct"))

\* C9: for every accepted Problems row, the choice read from column choice_X
\* is marked correct if and only if the letter X appears, in either case, in
\* the comma/semicolon/space-separated correct list; with all six choice
\* columns filled, the choice at index i is correct exactly when the i-th
\* letter of a..f is listed.
CorrectMarks ==
    ppc \in {"Open Response", "cross", "done"} =>
        \A n \in 2..Len(ProblemSheetRows) :
            LET row    == ProblemSheetRows[n]
                id     == ProblemCell(row, "block_id")
                filled == FilledChoices(row)
                last   == \A m \in (n + 1)..Len(ProblemSheetRows) :
                            ~(/\ AcceptedProblemRow(ProblemSheetRows[m])
                              /\ ProblemCell(ProblemSheetRows[m], "block_id") = id)
            IN  AcceptedProblemRow(row) /\ last =>
                    /\ MapHas(pst.data.problemBlocks, id)
                    /\ Len(MapGet(pst.data.problemBlocks, id).choices) = Len(filled)
                    /\ \A j \in 1..Len(filled) :
                        LET choice == MapGet(pst.data.problemBlocks, id).choices[j]
                        IN  /\ choice.text
                                 = ProblemCell(row, "choice_" \o ChoiceLetters[filled[j]])
                            /\ choice.correct
                                 <=> Listed(filled[j], ProblemCell(row, "correct"))

\* C9 witness: the workbook is decoded; one accepted row has six choices with
\* exactly B and D listed, another has fewer choices and a lower-case list
CorrectMarksWitness ==
    /\ ppc = "done"
    /\ \E i, j \in 1..Len(pst.data.problemBlocks) :
        LET six  == pst.data.problemBlocks[i][2].choices
            some == pst.data.problemBlocks[j][2].choices
        IN  /\ Len(six) = 6
            /\ {k \in 1..6 : six[k].correct} = {2, 4}
            /\ Len(some) = 3
            /\ {k \in 1..3 : some[k].correct} = {2}
    /\ \E n \in 2..Len(ProblemSheetRows) : ProblemCell(ProblemSheetRows[n], "correct") = "c"

\* the number of errors that name row n of the Problems sheet
ProblemRowErrors(errors, n) ==
    Cardinality({i \in 1..Len(errors) :
                    StartsWithAt(errors[i], RowLabel("Problems", n) \o ":", 1)})

\* the rows of the Problems sheet that are accepted
AcceptedProblemRows ==
    {n \in 2..Len(ProblemSheetRows) : AcceptedProblemRow(ProblemSheetRows[n])}

\* C20: a Problems row with a block_id that has fewer than two filled choice
\* columns, or no filled choice column whose letter is in the correct list,
\* adds exactly one error and no entry to problemBlocks; a row that passes
\* both rules adds an entry and no error.
ProblemRowRules ==
    ppc \in {"Open Response", "cross", "done"} =>
        /\ \A n \in 2..Len(ProblemSheetRows) :
              ProblemCell(ProblemSheetRows[n], "block_id") # "" =>
                  ProblemRowErrors(pst.errors, n)
                      = IF n \in AcceptedProblemRows THEN 0 ELSE 1
        /\ MapKeys(pst.data.problemBlocks)
              = {ProblemCell(ProblemSheetRows[n], "block_id") : n \in AcceptedProblemRows}

\* C20 witness: the sheet is decoded; its first row fails both rules (one
\* filled choice, a correct letter that points at an empty column), its second
\* row passes, and problemBlocks holds the second row only
ProblemRowRulesWitness ==
    /\ ppc = "done"
    /\ Len(ProblemSheetRows) = 3
    /\ Len(FilledChoices(ProblemSheetRows[2])) = 1
    /\ ProblemCell(ProblemSheetRows[2], "choice_a") = ""
    /\ ProblemCell(ProblemSheetRows[2], "correct") = "A"
    /\ AcceptedProblemRows = {3}
    /\ Len(pst.data.problemBlocks) = 1
    /\ ProblemRowErrors(pst.errors, 2) = 1

\* the rows of the sheet of that name, <<>> if the workbook has none
SheetRowsOf(wb, name) ==
    IF FindSheet(wb, name) = 0 THEN <<>> ELSE wb[FindSheet(wb, name)].rows

\* the block ids of the data rows of a content sheet, whose first column is
\* block_id
SheetBlockIds(wb, name) ==
    {Trim(SheetRowsOf(wb, name)[n][1]) : n \in 2..Len(SheetRowsOf(wb, name))} \ {""}

\* C21: when the Course Info sheet, the Structure sheet, or both are missing,
\* parseWorkbook returns: it adds one 'Missing sheet' error per missing sheet,
\* leaves the corresponding part of the model at its empty defaults, and still
\* reads every content sheet and runs the cross-validation pass, with all the
\* errors in one list.
MissingSheetsReported ==
    (/\ ppc = "done"
     /\ FindSheet(pwb, "Course Info") = 0 \/ FindSheet(pwb, "Structure") = 0) =>
        /\ CountOf(pst.errors, "Missing sheet: \"Course Info\"")
              = IF FindSheet(pwb, "Course Info") = 0 THEN 1 ELSE 0
        /\ CountOf(pst.errors, "Missing sheet: \"Structure\"")
              = IF FindSheet(pwb, "Structure") = 0 THEN 1 ELSE 0
        /\ FindSheet(pwb, "Course Info") = 0 => pst.data.info = CreateCourseData.info
        /\ FindSheet(pwb, "Structure") = 0 => pst.data.structure = <<>>
        /\ MapKeys(pst.data.textBlocks) = SheetBlockIds(pwb, "Text Blocks")
        /\ MapKeys(pst.data.videoBlocks) = SheetBlockIds(pwb, "Videos")
        /\ MapKeys(pst.data.problemBlocks)
              = {ProblemCell(ProblemSheetRows[n], "block_id") : n \in AcceptedProblemRows}
        /\ MapKeys(pst.data.openResponseBlocks) = SheetBlockIds(pwb, "Open Response")
        /\ \A i \in 1..Len(pst.data.structure) :
              ~MapHas(BlockMapOf(pst.data, pst.data.structure[i].blockType),
                      pst.data.structure[i].blockId)
                  => CountOf(pst.errors,
                             CrossError(pst.data, pst.data.structure[i])[1]) >= 1

\* C21 witness: a workbook without Course Info and without Text Blocks has
\* been decoded to the end; the Structure sheet and the other content sheets
\* were read, and the list holds the 'Missing sheet' error and the error of
\* the cross-validation pass for the text block
MissingSheetsReportedWitness ==
    /\ ppc = "done"
    /\ FindSheet(pwb, "Course Info") = 0
    /\ FindSheet(pwb, "Text Blocks") = 0
    /\ Len(pst.data.structure) = 4
    /\ MapKeys(pst.data.videoBlocks) = {"v1"}
    /\ pst.errors
          = <<"Missing sheet: \"Course Info\"",
              "Structure references text block \"t1\" but it's not defined in \"Text Blocks\" sheet.">>

\* the cell of a Structure row under the given header
StructureCell(row, header) ==
    Trim(row[CHOOSE c \in 1..Len(StructureHeader) : StructureHeader[c] = header])

\* a Structure row that has its five cells and one of the four block types,
\* in any case
AcceptedStructureRow(row) ==
    /\ \A c \in 1..Len(StructureHeader) : StructureCell(row, StructureHeader[c]) # ""
    /\ \E t \in 1..Len(ValidTypes) :
          ValidTypes[t] = ToLowerCase(StructureCell(row, "block_type"))

\* the StructureRow of an accepted row
StructureRowFor(row) ==
    [chapter    |-> StructureCell(row, "chapter"),
     sequential |-> StructureCell(row, "sequential"),
     vertical   |-> StructureCell(row, "vertical"),
     blockType  |-> ToLowerCase(StructureCell(row, "block_type")),
     blockId    |-> StructureCell(row, "block_id")]

\* the data rows of a Structure sheet that are accepted, in sheet order
AcceptedStructureRows(rows) ==
    SelectSeq([k \in 1..(Len(rows) - 1) |-> rows[k + 1]] \o <<>>, AcceptedStructureRow)

\* the number of errors that name row n of the Structure sheet
StructureRowErrors(errors, n) ==
    Cardinality({i \in 1..Len(errors) :
                    StartsWithAt(errors[i], RowLabel("Structure", n) \o ":", 1)})

\* C22: every Structure data row that lacks chapter, sequential, vertical,
\* block_type or block_id, or whose block_type is not one of text, video,
\* problem, openresponse (compared without regard to case), adds exactly one
\* error and no StructureRow; every other row adds exactly one StructureRow
\* with a lower-cased blockType, and accepted rows keep their sheet order.
StructureRowRules ==
    ppc \notin {"Course Info", "Structure", "idle"} =>
        LET rows == SheetRowsOf(pwb, "Structure")
        IN  /\ \A n \in 2..Len(rows) :
                  StructureRowErrors(pst.errors, n)
                      = IF AcceptedStructureRow(rows[n]) THEN 0 ELSE 1
            /\ pst.data.structure
                  = [k \in 1..Len(AcceptedStructureRows(rows))
                        |-> StructureRowFor(AcceptedStructureRows(rows)[k])]

\* C22 witness: the Structure sheet has been read; its first data row lacks
\* block_id and its second has the block type in upper case: one error for
\* the first, one StructureRow of type video for the second
StructureRowRulesWitness ==
    /\ ppc = "done"
    /\ Len(SheetRowsOf(pwb, "Structure")) = 3
    /\ StructureCell(SheetRowsOf(pwb, "Structure")[2], "block_id") = ""
    /\ StructureCell(SheetRowsOf(pwb, "Structure")[3], "block_type") = "VIDEO"
    /\ StructureRowErrors(pst.errors, 2) = 1
    /\ Len(pst.data.structure) = 1
    /\ pst.data.structure[1].blockType = "video"

-----------------------------------------------------------------------------
(* utils.js and the generators: CourseData and hierarchy to an entry map.  *)

\* escapeXml(str)
\* escapeXml without the replacement of the double quote
EscapeXmlKeepQuotes(str) ==
    ReplaceAll(ReplaceAll(ReplaceAll(ReplaceAll(str,
        "&", "&amp;"), "<", "&lt;"), ">", "&gt;"), "'", "&apos;")

EscapeXml(str) ==
    ReplaceAll(ReplaceAll(ReplaceAll(ReplaceAll(ReplaceAll(str,
        "&", "&amp;"), "<", "&lt;"), ">", "&gt;"), "\"", "&quot;"), "'", "&apos;")

\* the days of a month
DaysIn(year, month) ==
    IF month = 2
    THEN IF year % 4 = 0 /\ (year % 100 # 0 \/ year % 400 = 0) THEN 29 ELSE 28
    ELSE IF month \in {4, 6, 9, 11} THEN 30 ELSE 31

\* s is digits only
AllDigits(s) == \A i \in 1..Len(s) : IsDigit(CharAt(s, i))

\* a day of a month of a year
IsDate(year, month, day) == month \in 1..12 /\ day \in 1..DaysIn(year, month)

\* s is a calendar date written YYYY-MM-DD
IsIsoDate(s) ==
    /\ Len(s) = 10
    /\ AllDigits(SubSeq(s, 1, 4) \o SubSeq(s, 6, 7) \o SubSeq(s, 9, 10))
    /\ CharAt(s, 5) = "-" /\ CharAt(s, 8) = "-"
    /\ IsDate(ParseIntOr0(SubSeq(s, 1, 4), 10), ParseIntOr0(SubSeq(s, 6, 7), 10),
              ParseIntOr0(SubSeq(s, 9, 10), 10))

\* s is a UTC time of day written THH:MM:SSZ
IsIsoTime(s) ==
    /\ Len(s) = 10
    /\ CharAt(s, 1) = "T" /\ CharAt(s, 4) = ":" /\ CharAt(s, 7) = ":" /\ CharAt(s, 10) = "Z"
    /\ AllDigits(SubSeq(s, 2, 3) \o SubSeq(s, 5, 6) \o SubSeq(s, 8, 9))
    /\ ParseIntOr0(SubSeq(s, 2, 3), 10) < 24
    /\ ParseIntOr0(SubSeq(s, 5, 6), 10) < 60
    /\ ParseIntOr0(SubSeq(s, 8, 9), 10) < 60

\* formatEdxDate(dateStr) for the two ISO forms every engine reads alike: a
\* date, taken as midnight UTC, and a date with a UTC time; any other text is
\* modelled as one that new Date cannot read
FormatEdxDate(dateStr) ==
    IF IsIsoDate(dateStr) THEN dateStr \o "T00:00:00Z"
    ELSE IF Len(dateStr) = 20 /\ IsIsoDate(SubSeq(dateStr, 1, 10))
            /\ IsIsoTime(SubSeq(dateStr, 11, 20))
    THEN dateStr
    ELSE ""

\* text.split(/\n\n+/): the pieces between runs of two or more newlines
RECURSIVE SplitParagraphs(_)
SplitParagraphs(text) ==
    LET i == IndexOf(text, "\n\n", 1)
        rest == {j \in (i + 2)..Len(text) : CharAt(text, j) # "\n"}
    IN  IF i = 0 THEN <<text>>
        ELSE <<Prefix(text, i)>>
                \o SplitParagraphs(IF rest = {} THEN "" ELSE Suffix(text, SetMin(rest)))

\* /<[a-z][\s\S]*>/i.test(text): a '<', a letter right after it, a '>' later on
LooksLikeHtml(text) ==
    \E i \in 1..(Len(text) - 2) :
        /\ CharAt(text, i) = "<"
        /\ IsLower(CharAt(text, i + 1)) \/ IsUpper(CharAt(text, i + 1))
        /\ IndexOf(text, ">", i + 2) > 0

\* textToHtml(text)
TextToHtml(text) ==
    IF text = "" THEN ""
    ELSE IF LooksLikeHtml(text) THEN text
    ELSE LET ps == SplitParagraphs(text)
         IN  Join([i \in 1..Len(ps) |-> "<p>" \o ReplaceAll(ps[i], "\n", "<br/>") \o "</p>"],
                  "\n")

\* JSON.stringify of a string
JsonQuote(s) ==
    "\"" \o ReplaceAll(ReplaceAll(ReplaceAll(ReplaceAll(ReplaceAll(s,
        "\\", "\\\\"), "\"", "\\\""), "\n", "\\n"), "\t", "\\t"), "\r", "\\r") \o "\""

RECURSIVE ConcatAll(_)
\* the concatenation of a sequence of texts
ConcatAll(parts) ==
    IF Len(parts) = 0 THEN ""
    ELSE IF Len(parts) = 1 THEN parts[1]
    ELSE ConcatAll(SubSeq(parts, 1, Len(parts) \div 2))
            \o ConcatAll(SubSeq(parts, Len(parts) \div 2 + 1, Len(parts)))

\* one entry of the tabs array of policy.json
PolicyTab(name, type, last) ==
    "            {\n"
    \o "                \"course_staff_only\": false,\n"
    \o "                \"name\": " \o JsonQuote(name) \o ",\n"
    \o "                \"type\": " \o JsonQuote(type) \o "\n"
    \o "            }" \o (IF last THEN "" ELSE ",") \o "\n"

\* JSON.stringify(policy, null, 4) + '\n'
PolicyJson(info, run) ==
    "{\n"
    \o "    " \o JsonQuote("course/" \o run) \o ": {\n"
    \o "        \"display_name\": " \o JsonQuote(info.courseName) \o ",\n"
    \o "        \"language\": " \o JsonQuote(info.language) \o ",\n"
    \o "        \"self_paced\": " \o (IF info.selfPaced THEN "true" ELSE "false") \o ",\n"
    \o (IF info.startDate # ""
        THEN "        \"start\": " \o JsonQuote(FormatEdxDate(info.startDate)) \o ",\n"
        ELSE "")
    \o (IF info.endDate # ""
        THEN "        \"end\": " \o JsonQuote(FormatEdxDate(info.endDate)) \o ",\n"
        ELSE "")
    \o "        \"tabs\": [\n"
    \o PolicyTab("Course", "courseware", FALSE)
    \o PolicyTab("Progress", "progress", FALSE)
    \o PolicyTab("Dates", "dates", FALSE)
    \o PolicyTab("Discussion", "discussion", TRUE)
    \o "        ]\n"
    \o "    }\n"
    \o "}\n"

\* one entry of GRADER of grading_policy.json
Grader(label, type, last) ==
    "        {\n"
    \o "            \"drop_count\": 0,\n"
    \o "            \"min_count\": 1,\n"
    \o "            \"short_label\": " \o JsonQuote(label) \o ",\n"
    \o "            \"type\": " \o JsonQuote(type) \o ",\n"
    \o "            \"weight\": 0.5\n"
    \o "        }" \o (IF last THEN "" ELSE ",") \o "\n"

\* JSON.stringify(gradingPolicy, null, 4) + '\n'
GradingPolicyJson ==
    "{\n"
    \o "    \"GRADER\": [\n"
    \o Grader("HW", "Homework", FALSE)
    \o Grader("Final", "Final Exam", TRUE)
    \o "    ],\n"
    \o "    \"GRADE_CUTOFFS\": {\n"
    \o "        \"Pass\": 0.5\n"
    \o "    }\n"
    \o "}\n"

\* the child lines of a course, chapter or sequential file
ChildLines(tag, nodes) ==
    ConcatAll([i \in 1..Len(nodes) |->
        "  <" \o tag \o " url_name=\"" \o EscapeXml(nodes[i].id) \o "\"/>\n"])

\* generateCourse(info, chapters)
GenerateCourse(info, chapters) ==
    LET run       == OrElse(info.run, "course_run")
        selfPaced == IF info.selfPaced THEN " self_paced=\"true\"" ELSE ""
        startAttr == IF info.startDate # ""
                     THEN " start=\"" \o EscapeXml(FormatEdxDate(info.startDate)) \o "\""
                     ELSE ""
        endAttr   == IF info.endDate # ""
                     THEN " end=\"" \o EscapeXml(FormatEdxDate(info.endDate)) \o "\""
                     ELSE ""
        courseXml == "<course display_name=\"" \o EscapeXml(info.courseName)
                        \o "\" language=\"" \o EscapeXml(info.language) \o "\""
                        \o selfPaced \o startAttr \o endAttr \o ">\n"
                        \o ChildLines("chapter", chapters)
                        \o "</course>\n"
        f1 == MapSet(<<>>, "course.xml",
                "<course url_name=\"" \o EscapeXml(run) \o "\" org=\"" \o EscapeXml(info.org)
                    \o "\" course=\"" \o EscapeXml(info.courseId) \o "\"/>\n")
        f2 == MapSet(f1, "course/" \o run \o ".xml", courseXml)
        f3 == MapSet(f2, "policies/" \o run \o "/policy.json", PolicyJson(info, run))
    IN  MapSet(f3, "policies/" \o run \o "/grading_policy.json", GradingPolicyJson)

\* generateChapters(chapters)
GenerateChapters(chapters) ==
    MapMerge(<<>>,
        [c \in 1..Len(chapters) |->
            <<"chapter/" \o chapters[c].id \o ".xml",
              "<chapter display_name=\"" \o EscapeXml(chapters[c].name) \o "\">\n"
                \o ChildLines("sequential", chapters[c].sequentials)
                \o "</chapter>\n">>])

\* the sequentials of all chapters, in order
AllSequentials(chapters) ==
    IF Len(chapters) = 0 THEN <<>>
    ELSE LET F[c \in 1..Len(chapters)] ==
                 (IF c = 1 THEN <<>> ELSE F[c - 1]) \o chapters[c].sequentials
         IN  F[Len(chapters)]

\* the verticals of all sequentials of all chapters, in order
AllVerticals(chapters) ==
    LET seqs == AllSequentials(chapters)
    IN  IF Len(seqs) = 0 THEN <<>>
        ELSE LET F[q \in 1..Len(seqs)] ==
                     (IF q = 1 THEN <<>> ELSE F[q - 1]) \o seqs[q].verticals
             IN  F[Len(seqs)]

\* generateSequentials(chapters)
GenerateSequentials(chapters) ==
    LET seqs == AllSequentials(chapters)
    IN  MapMerge(<<>>,
            [q \in 1..Len(seqs) |->
                <<"sequential/" \o seqs[q].id \o ".xml",
                  "<sequential display_name=\"" \o EscapeXml(seqs[q].name) \o "\">\n"
                    \o ChildLines("vertical", seqs[q].verticals)
                    \o "</sequential>\n">>])

\* BLOCK_TYPE_TAG[type] || type
BlockTypeTag(type) ==
    CASE type = "text"         -> "html"
      [] type = "video"        -> "video"
      [] type = "problem"      -> "problem"
      [] type = "openresponse" -> "openassessment"
      [] OTHER                 -> type

\* generateVerticals(chapters)
GenerateVerticals(chapters) ==
    LET verts == AllVerticals(chapters)
    IN  MapMerge(<<>>,
            [v \in 1..Len(verts) |->
                <<"vertical/" \o verts[v].id \o ".xml",
                  "<vertical display_name=\"" \o EscapeXml(verts[v].name) \o "\">\n"
                    \o ConcatAll([b \in 1..Len(verts[v].blocks) |->
                          "  <" \o BlockTypeTag(verts[v].blocks[b].type) \o " url_name=\""
                            \o EscapeXml(verts[v].blocks[b].blockId) \o "\"/>\n"])
                    \o "</vertical>\n">>])


\* generateHtmlBlocks(textBlocks)
GenerateHtmlBlocks(textBlocks) ==
    MapMerge(<<>>,
        [n \in 1..(2 * Len(textBlocks)) |->
            LET blockId == textBlocks[(n + 1) \div 2][1]
                block   == textBlocks[(n + 1) \div 2][2]
            IN  IF n % 2 = 1
                THEN <<"html/" \o blockId \o ".xml",
                       "<html filename=\"" \o EscapeXml(blockId) \o "\" display_name=\""
                           \o EscapeXml(block.title) \o "\"/>\n">>
                ELSE <<"html/" \o blockId \o ".html", TextToHtml(block.content) \o "\n">>])

\* the attribute list generateVideoBlocks builds for one block
VideoAttrs(blockId, block) ==
    <<"url_name=\"" \o EscapeXml(blockId) \o "\"",
      "display_name=\"" \o EscapeXml(block.title) \o "\"">>
    \o (IF block.youtubeId # ""
        THEN <<"youtube=\"1.00:" \o EscapeXml(block.youtubeId) \o "\"",
               "youtube_id_1_0=\"" \o EscapeXml(block.youtubeId) \o "\"">>
        ELSE <<>>)
    \o (IF block.html5Url # ""
        THEN <<"html5_sources=\"[&quot;" \o EscapeXml(block.html5Url) \o "&quot;]\"">>
        ELSE <<"html5_sources=\"[]\"">>)
    \o <<"start_time=\"" \o EscapeXml(OrElse(block.startTime, "00:00:00")) \o "\"",
         "end_time=\"" \o EscapeXml(OrElse(block.endTime, "00:00:00")) \o "\"",
         "edx_video_id=\"\"">>

\* generateVideoBlocks(videoBlocks)
GenerateVideoBlocks(videoBlocks) ==
    MapMerge(<<>>,
        [i \in 1..Len(videoBlocks) |->
            <<"video/" \o videoBlocks[i][1] \o ".xml",
              "<video " \o Join(VideoAttrs(videoBlocks[i][1], videoBlocks[i][2]), " ")
                \o "/>\n">>])

\* the lines generateProblemBlocks writes for one choice
ChoiceXml(choice) ==
    "    <choice correct=\"" \o (IF choice.correct THEN "true" ELSE "false") \o "\">"
    \o EscapeXml(choice.text)
    \o (IF choice.hint # ""
        THEN " <choicehint>" \o EscapeXml(choice.hint) \o "</choicehint>"
        ELSE "")
    \o "\n</choice>\n"

\* the file generateProblemBlocks writes for one block
ProblemXml(block) ==
    "<problem display_name=\"" \o EscapeXml(block.title) \o "\" showanswer=\""
        \o EscapeXml(block.showAnswer) \o "\">\n"
    \o "<multiplechoiceresponse>\n"
    \o "  <label>" \o EscapeXml(block.questionText) \o "</label>\n"
    \o "<choicegroup type=\"MultipleChoice\">\n"
    \o ConcatAll([k \in 1..Len(block.choices) |-> ChoiceXml(block.choices[k])])
    \o "  </choicegroup>\n"
    \o (IF block.explanation # ""
        THEN "<solution>\n"
             \o "<div class=\"detailed-solution\">\n"
             \o "<p>Explanation</p>\n"
             \o "<p>" \o EscapeXml(block.explanation) \o "</p>\n"
             \o "</div>\n"
             \o "</solution>\n"
        ELSE "")
    \o "</multiplechoiceresponse>\n"
    \o "</problem>\n"

\* generateProblemBlocks(problemBlocks)
GenerateProblemBlocks(problemBlocks) ==
    MapMerge(<<>>,
        [i \in 1..Len(problemBlocks) |->
            <<"problem/" \o problemBlocks[i][1] \o ".xml", ProblemXml(problemBlocks[i][2])>>])

\* `${n}` for an integer n
IntText(n) == IF n < 0 THEN "-" \o ToRadix(0 - n, 10) ELSE ToRadix(n, 10)

\* the lines generateOpenResponseBlocks writes for one option
OptionXml(opt) ==
    "      <option points=\"" \o IntText(opt.points) \o "\">\n"
    \o "        <name>" \o EscapeXml(opt.label) \o "</name>\n"
    \o "        <label>" \o EscapeXml(opt.label) \o "</label>\n"
    \o "        <explanation>" \o EscapeXml(opt.label) \o " level performance</explanation>\n"
    \o "      </option>\n"

\* the lines generateOpenResponseBlocks writes for one criterion
CriterionXml(criterion) ==
    "    <criterion>\n"
    \o "      <name>" \o EscapeXml(criterion.name) \o "</name>\n"
    \o "      <label>" \o EscapeXml(criterion.name) \o "</label>\n"
    \o "      <prompt>" \o EscapeXml(criterion.name) \o "</prompt>\n"
    \o ConcatAll([k \in 1..Len(criterion.options) |-> OptionXml(criterion.options[k])])
    \o "    </criterion>\n"

\* the file generateOpenResponseBlocks writes for one block
OpenResponseXml(blockId, block) ==
    "<openassessment url_name=\"" \o EscapeXml(blockId) \o "\" display_name=\""
        \o EscapeXml(block.title) \o "\""
    \o " submission_due=\"2099-01-01T00:00:00Z\" submission_start=\"2000-01-01T00:00:00Z\">\n"
    \o "  <title>" \o EscapeXml(block.title) \o "</title>\n"
    \o "  <prompt>\n"
    \o "    <description>" \o EscapeXml(block.prompt) \o "</description>\n"
    \o "  </prompt>\n"
    \o "  <rubric>\n"
    \o ConcatAll([c \in 1..Len(block.criteria) |-> CriterionXml(block.criteria[c])])
    \o "  </rubric>\n"
    \o "  <assessments>\n"
    \o (IF block.assessmentType = "peer"
        THEN "    <assessment name=\"peer-assessment\" must_grade=\"5\" must_be_graded_by=\"3\"/>\n"
        ELSE "")
    \o (IF block.assessmentType \in {"self", "peer"}
        THEN "    <assessment name=\"self-assessment\"/>\n"
        ELSE "")
    \o (IF block.assessmentType = "staff"
        THEN "    <assessment name=\"staff-assessment\" required=\"true\"/>\n"
        ELSE "")
    \o "  </assessments>\n"
    \o "</openassessment>\n"

\* generateOpenResponseBlocks(oraBlocks)
GenerateOpenResponseBlocks(oraBlocks) ==
    MapMerge(<<>>,
        [i \in 1..Len(oraBlocks) |->
            <<"openassessment/" \o oraBlocks[i][1] \o ".xml",
              OpenResponseXml(oraBlocks[i][1], oraBlocks[i][2])>>])

\* the export handler's allFiles: the fragments of the eight generators merged
GenerateAll(courseData, hierarchy) ==
    MapMerge(MapMerge(MapMerge(MapMerge(MapMerge(MapMerge(MapMerge(MapMerge(<<>>,
        GenerateCourse(courseData.info, hierarchy)),
        GenerateChapters(hierarchy)),
        GenerateSequentials(hierarchy)),
        GenerateVerticals(hierarchy)),
        GenerateHtmlBlocks(courseData.textBlocks)),
        GenerateVideoBlocks(courseData.videoBlocks)),
        GenerateProblemBlocks(courseData.problemBlocks)),
        GenerateOpenResponseBlocks(courseData.openResponseBlocks))

-----------------------------------------------------------------------------
(* main.js, the OLX reverse parser: the XML helpers.                       *)

\* decodeXmlEntities(str)
DecodeXmlEntities(str) ==
    ReplaceAll(ReplaceAll(ReplaceAll(ReplaceAll(ReplaceAll(str,
        "&amp;", "&"), "&lt;", "<"), "&gt;", ">"), "&quot;", "\""), "&apos;", "'")

\* the end of the longest run of \w characters of s that starts at p; p - 1 if none
WordRunEnd(s, p) ==
    LET stops == {j \in p..Len(s) : ~IsWord(CharAt(s, j))}
    IN  IF stops = {} THEN Len(s) ELSE SetMin(stops) - 1

\* [\w_:-]
IsNameChar(c) == IsWord(c) \/ c = ":" \/ c = "-"

\* the end of the longest run of [\w_:-] characters of s that starts at p
NameRunEnd(s, p) ==
    LET stops == {j \in p..Len(s) : ~IsNameChar(CharAt(s, j))}
    IN  IF stops = {} THEN Len(s) ELSE SetMin(stops) - 1

\* the first position >= p of s that holds no whitespace; Len(s) + 1 if none
SkipSpaces(s, p) ==
    LET stops == {j \in p..Len(s) : ~IsSpace(CharAt(s, j))}
    IN  IF stops = {} THEN Len(s) + 1 ELSE SetMin(stops)

\* position q of s if it holds a '"', 0 otherwise
QuoteAt(s, q) == IF CharAt(s, q) = "\"" THEN q ELSE 0

\* the position of the '"' that =\s*" reaches from position eq of s, 0 if none
QuoteAfterEq(s, eq) == IF CharAt(s, eq) = "=" THEN QuoteAt(s, SkipSpaces(s, eq + 1)) ELSE 0

\* the position of the first '"' after the one at position open, 0 if none
CloseQuote(s, open) == IF open = 0 THEN 0 ELSE IndexOf(s, "\"", open + 1)

\* the match of the attribute pattern given the end of the name and the
\* positions of the two quotes
AttrMatch(s, p, nameEnd, open, close) ==
    IF nameEnd >= p /\ close > 0
    THEN [ok |-> TRUE, name |-> SubSeq(s, p, nameEnd),
          value |-> SubSeq(s, open + 1, close - 1), end |-> close]
    ELSE [ok |-> FALSE, name |-> "", value |-> "", end |-> 0]

AttrMatchFrom(s, p, nameEnd, open) == AttrMatch(s, p, nameEnd, open, CloseQuote(s, open))

AttrMatchEnd(s, p, nameEnd) ==
    AttrMatchFrom(s, p, nameEnd, QuoteAfterEq(s, SkipSpaces(s, nameEnd + 1)))

\* the match of /([\w_:-]+)\s*=\s*"([^"]*?)"/ that starts at position p of s
AttrMatchAt(s, p) == AttrMatchEnd(s, p, NameRunEnd(s, p))

\* the start of the first match of the attribute pattern at or after position
\* from of s, 0 if none
FirstAttr(s, from) ==
    MinOrZero({p \in from..Len(s) :
                  /\ IsNameChar(CharAt(s, p))
                  /\ p = from \/ ~IsNameChar(CharAt(s, p - 1))
                  /\ AttrMatchAt(s, p).ok})

RECURSIVE AttrPairsFrom(_, _)
\* the attrRegex.exec loop from position from on: every name="value" pair,
\* left to right, the value with its entities decoded
AttrPairsAfter(s, m) ==
    <<<<m.name, DecodeXmlEntities(m.value)>>>> \o AttrPairsFrom(s, m.end + 1)

AttrPairsAt(s, p) == IF p = 0 THEN <<>> ELSE AttrPairsAfter(s, AttrMatchAt(s, p))

AttrPairsFrom(s, from) == AttrPairsAt(s, FirstAttr(s, from))

\* attrs[m[1]] = decodeXmlEntities(m[2]) for every pair of s: a later pair of
\* the same name replaces the value
AttrsOf(s) == MapMerge(<<>>, AttrPairsFrom(s, 1))

\* the match of the tag pattern given the end of the element name and the
\* position of the closing '>'
TagMatch(s, p, wordEnd, close) ==
    IF /\ CharAt(s, p) = "<"
       /\ wordEnd >= p + 1
       /\ IsSpace(CharAt(s, wordEnd + 1))
       /\ close > 0
    THEN [ok |-> TRUE, tag |-> SubSeq(s, p + 1, wordEnd),
          inner |-> SubSeq(s, wordEnd + 2, close - 1), end |-> close]
    ELSE [ok |-> FALSE, tag |-> "", inner |-> "", end |-> 0]

TagMatchEnd(s, p, wordEnd) == TagMatch(s, p, wordEnd, IndexOf(s, ">", wordEnd + 2))

\* the match of /<(\w+)\s([^>]*?)\/?\s*>/ that starts at position p of s
TagMatchAt(s, p) == TagMatchEnd(s, p, WordRunEnd(s, p + 1))

\* the match of the tag pattern at position p of s, no match for p = 0
TagMatchOrNone(s, p) ==
    IF p = 0 THEN [ok |-> FALSE, tag |-> "", inner |-> "", end |-> 0] ELSE TagMatchAt(s, p)

\* the first match of TagMatchAt at or after position from; ok is FALSE if none
FirstTag(s, from) ==
    TagMatchOrNone(s,
        MinOrZero({p \in from..Len(s) : CharAt(s, p) = "<" /\ TagMatchAt(s, p).ok}))

\* inner without one trailing '/': the group of /<\w+\s([^>]*?)\/?>/
DropSlash(inner) ==
    IF inner # "" /\ CharAt(inner, Len(inner)) = "/"
    THEN SubSeq(inner, 1, Len(inner) - 1)
    ELSE inner

\* the attributes of the tag a match of the tag pattern found
AttrsOfTag(m) == IF ~m.ok THEN <<>> ELSE AttrsOf(DropSlash(m.inner))

\* parseXmlAttributes(xml)
ParseXmlAttributes(xml) == AttrsOfTag(FirstTag(xml, 1))

\* the match that starts at position p of xml, given the position q of the last
\* url_name=" before the end of the tag (0 if none) and the '"' that closes it
ChildMatch(xml, open, p, q, close) ==
    IF /\ StartsWithAt(xml, open, p)
       /\ IsSpace(CharAt(xml, p + Len(open)))
       /\ q > 0
    THEN [ok |-> TRUE, id |-> SubSeq(xml, q + 10, close - 1), end |-> close]
    ELSE [ok |-> FALSE, id |-> "", end |-> 0]

ChildMatchName(xml, open, p, q) == ChildMatch(xml, open, p, q, IndexOf(xml, "\"", q + 10))

\* the end of the tag that starts before position first: its '>', or the end
\* of xml
TagLimit(xml, gt) == IF gt = 0 THEN Len(xml) + 1 ELSE gt

ChildMatchLimit(xml, open, p, first, limit) ==
    ChildMatchName(xml, open, p,
        MaxOrZero({q \in first..(limit - 10) :
                      /\ StartsWithAt(xml, "url_name=\"", q)
                      /\ IndexOf(xml, "\"", q + 10) > 0}))

ChildMatchFirst(xml, open, p, first) ==
    ChildMatchLimit(xml, open, p, first, TagLimit(xml, IndexOf(xml, ">", first)))

\* the match of <TAG\s[^>]*url_name="([^"]*)" that starts at position p of xml
ChildMatchAt(xml, tagName, p) ==
    ChildMatchFirst(xml, "<" \o tagName, p, p + Len(tagName) + 2)

RECURSIVE ChildIdsFrom(_, _, _)
\* the regex.exec loop of extractChildIds from position from on
ChildIdsAfter(xml, tagName, m) == <<m.id>> \o ChildIdsFrom(xml, tagName, m.end + 1)

ChildIdsAt(xml, tagName, p) ==
    IF p = 0 THEN <<>> ELSE ChildIdsAfter(xml, tagName, ChildMatchAt(xml, tagName, p))

ChildIdsFrom(xml, tagName, from) ==
    ChildIdsAt(xml, tagName,
        MinOrZero({p \in from..Len(xml) : ChildMatchAt(xml, tagName, p).ok}))

\* extractChildIds(xml, tagName)
ExtractChildIds(xml, tagName) == ChildIdsFrom(xml, tagName, 1)

\* inner without its trailing whitespace and one '/' before that: the second
\* group of /<(\w+)\s([^>]*?)\/?\s*>/
DropSlashSpaces(inner) ==
    DropSlash(SubSeq(inner, 1, MaxOrZero({j \in 1..Len(inner) : ~IsSpace(CharAt(inner, j))})))

\* the block extractBlocks pushes for a tag and its attributes, none for a
\* vertical or a tag without url_name; a block is its attributes, with tag set
\* from the element name unless an attribute of that name replaces it
BlockOf(tag, attrs) ==
    IF tag # "vertical" /\ MapGet(attrs, "url_name") # ""
    THEN <<MapMerge(<<<<"tag", tag>>>>, attrs)>>
    ELSE <<>>

RECURSIVE BlocksFrom(_, _)
\* the regex.exec loop of extractBlocks from position from on
BlocksAfter(xml, m) ==
    IF ~m.ok THEN <<>>
    ELSE BlockOf(m.tag, AttrsOf(DropSlashSpaces(m.inner))) \o BlocksFrom(xml, m.end + 1)

BlocksFrom(xml, from) == BlocksAfter(xml, FirstTag(xml, from))

\* extractBlocks(xml)
ExtractBlocks(xml) == BlocksFrom(xml, 1)

RECURSIVE RemoveTags(_)
\* html.replace(/<[^>]*>/g, ' ')
RemoveTags(html) ==
    LET open  == IndexOf(html, "<", 1)
        close == IF open = 0 THEN 0 ELSE IndexOf(html, ">", open + 1)
    IN  IF close = 0 THEN html
        ELSE Prefix(html, open) \o " " \o RemoveTags(Suffix(html, close + 1))

\* stripTags(html)
StripTags(html) == Trim(ReplaceSpaceRuns(RemoveTags(html), " "))

\* the first match at or after position from of open, anything, close, the
\* shortest such: /open([\s\S]*?)close/ for literal open and close
Between(s, open, close, from) ==
    LET a == IndexOf(s, open, from)
        c == IF a = 0 THEN 0 ELSE IndexOf(s, close, a + Len(open))
    IN  [ok   |-> c > 0,
         text |-> IF c > 0 THEN SubSeq(s, a + Len(open), c - 1) ELSE "",
         end  |-> IF c > 0 THEN c + Len(close) - 1 ELSE 0]

-----------------------------------------------------------------------------
(* JSON.parse, as parseOlx and parseVideoBlock use it.  A value is a       *)
(* record: its type, its text (the content of a string, the source text of *)
(* any other value) and its items (the <<key, value>> pairs of an object,  *)
(* the values of an array).                                                *)

JsonValue(type, text, items) == [type |-> type, text |-> text, items |-> items]

JsonUndefined == JsonValue("undefined", "", <<>>)

JsonFail == [ok |-> FALSE, v |-> JsonUndefined, next |-> 0]

\* the first position >= p of s that holds no JSON whitespace
JsonSkip(s, p) == SkipSpaces(s, p)

IsHex(c) == DigitValue(c, 16) >= 0

\* the value of a run of hexadecimal digits
HexValue(s) == ParseIntOr0(ToLowerCase(s), 16)

\* the character an escape stands for, given the text after its backslash
EscapeChar(rest) ==
    LET e == CharAt(rest, 1)
    IN  CASE e = "n" -> "\n"
          [] e = "t" -> "\t"
          [] e = "r" -> "\r"
          [] e = "b" -> FromCharCode(8)
          [] e = "f" -> FromCharCode(12)
          [] e = "u" -> FromCharCode(HexValue(SubSeq(rest, 2, 5)))
          [] OTHER   -> e

\* whether the text after a backslash starts with a JSON escape
IsEscape(rest) ==
    LET e == CharAt(rest, 1)
    IN  \/ e \in {"\"", "\\", "/", "b", "f", "n", "r", "t"}
        \/ /\ e = "u"
           /\ Len(rest) >= 5
           /\ \A k \in 2..5 : IsHex(CharAt(rest, k))

RECURSIVE JsonUnescape(_)
\* the text of a string body raw whose first backslash is at position b,
\* given the text rest of what follows the escape
JsonUnescapeRest(raw, b, rest) ==
    [ok   |-> rest.ok,
     text |-> Prefix(raw, b) \o EscapeChar(Suffix(raw, b + 1)) \o rest.text]

\* the text of a string body raw whose first backslash is at position b, 0 if
\* it has none
JsonUnescapeAt(raw, b) ==
    IF b = 0 THEN [ok |-> TRUE, text |-> raw]
    ELSE IF ~IsEscape(Suffix(raw, b + 1)) THEN [ok |-> FALSE, text |-> ""]
    ELSE JsonUnescapeRest(raw, b,
            JsonUnescape(Suffix(raw, b + (IF CharAt(raw, b + 1) = "u" THEN 6 ELSE 2))))

\* the content of a string literal whose body is raw; ok is FALSE when raw
\* holds a bad escape or a raw control character
JsonUnescape(raw) ==
    IF \E j \in 1..Len(raw) : CharAt(raw, j) \in {"\n", "\t", "\r", "\f"}
    THEN [ok |-> FALSE, text |-> ""]
    ELSE JsonUnescapeAt(raw, IndexOf(raw, "\\", 1))

\* the number of backslashes of s that end right before position j
BackslashesBefore(s, j) ==
    IF j <= 1 \/ CharAt(s, j - 1) # "\\" THEN 0
    ELSE j - 1 - MaxOrZero({m \in 1..(j - 1) : CharAt(s, m) # "\\"})

\* position j of s if an even number of backslashes ends right before it, 0
\* for j = 0, and the next candidate otherwise
RECURSIVE StringEnd(_, _)
StringEndAt(s, j) ==
    IF j = 0 \/ BackslashesBefore(s, j) % 2 = 0 THEN j ELSE StringEnd(s, j + 1)

\* the first '"' of s at or after position from that no backslash escapes;
\* 0 if there is none
StringEnd(s, from) == StringEndAt(s, IndexOf(s, "\"", from))

\* a value read, and the position after it
JsonOk(v, next) == [ok |-> TRUE, v |-> v, next |-> next]

JsonStringBody(body, close) ==
    IF ~body.ok THEN JsonFail ELSE JsonOk(JsonValue("string", body.text, <<>>), close + 1)

JsonStringClose(s, p, close) ==
    IF close = 0 THEN JsonFail
    ELSE JsonStringBody(JsonUnescape(SubSeq(s, p + 1, close - 1)), close)

\* the string literal that starts at position p of s
JsonStringAt(s, p) ==
    IF CharAt(s, p) # "\"" THEN JsonFail ELSE JsonStringClose(s, p, StringEnd(s, p + 1))

\* the end of the longest run of digits of s that starts at p; p - 1 if none
DigitRunEnd(s, p) ==
    MinOrZero({j \in p..(Len(s) + 1) : ~IsDigit(CharAt(s, j))}) - 1

\* the later of two ends: run when the run of digits is not empty
EndOfRun(none, first, run) == IF run >= first THEN run ELSE none

\* the end of the integer part that starts at position int; int - 1 if none
JsonIntEnd(s, int) == IF CharAt(s, int) = "0" THEN int ELSE DigitRunEnd(s, int)

\* the end of the fraction that may follow an integer part ending at intEnd
JsonFracEnd(s, intEnd) ==
    IF CharAt(s, intEnd + 1) = "."
    THEN EndOfRun(intEnd, intEnd + 2, DigitRunEnd(s, intEnd + 2))
    ELSE intEnd

\* the first digit of an exponent whose letter is at position manEnd + 1
JsonExpStart(s, manEnd) ==
    IF CharAt(s, manEnd + 2) \in {"+", "-"} THEN manEnd + 3 ELSE manEnd + 2

JsonExpDigits(s, manEnd, first) == EndOfRun(manEnd, first, DigitRunEnd(s, first))

\* the end of the exponent that may follow a mantissa ending at manEnd
JsonExpEnd(s, manEnd) ==
    IF CharAt(s, manEnd + 1) \in {"e", "E"}
    THEN JsonExpDigits(s, manEnd, JsonExpStart(s, manEnd))
    ELSE manEnd

JsonNumberTo(s, p, end) == JsonOk(JsonValue("number", SubSeq(s, p, end), <<>>), end + 1)

JsonNumberEnd(s, p, int, intEnd) ==
    IF intEnd < int THEN JsonFail
    ELSE JsonNumberTo(s, p, JsonExpEnd(s, JsonFracEnd(s, intEnd)))

JsonNumberFrom(s, p, int) == JsonNumberEnd(s, p, int, JsonIntEnd(s, int))

\* the number literal that starts at position p of s
JsonNumberAt(s, p) == JsonNumberFrom(s, p, IF CharAt(s, p) = "-" THEN p + 1 ELSE p)

RECURSIVE JsonValueAt(_, _)
RECURSIVE JsonMembersAt(_, _, _)
RECURSIVE JsonItemsAt(_, _, _)

\* what follows a member of an object: its '}', or a ',' and more members
JsonMemberNext(s, after, all) ==
    IF CharAt(s, after) = "}"
    THEN JsonOk(JsonValue("object", "", all), after + 1)
    ELSE IF CharAt(s, after) = ","
    THEN JsonMembersAt(s, JsonSkip(s, after + 1), all)
    ELSE JsonFail

JsonMemberValue(s, name, val, members) ==
    IF ~val.ok THEN JsonFail
    ELSE JsonMemberNext(s, JsonSkip(s, val.next), MapSet(members, name, val.v))

JsonMemberColon(s, name, colon, members) ==
    IF CharAt(s, colon) # ":" THEN JsonFail
    ELSE JsonMemberValue(s, name, JsonValueAt(s, JsonSkip(s, colon + 1)), members)

JsonMemberKey(s, key, members) ==
    IF ~key.ok THEN JsonFail
    ELSE JsonMemberColon(s, key.v.text, JsonSkip(s, key.next), members)

\* the members of an object from the key at position p on, up to its '}'
JsonMembersAt(s, p, members) == JsonMemberKey(s, JsonStringAt(s, p), members)

\* what follows an item of an array: its ']', or a ',' and more items
JsonItemNext(s, after, all) ==
    IF CharAt(s, after) = "]"
    THEN JsonOk(JsonValue("array", "", all), after + 1)
    ELSE IF CharAt(s, after) = ","
    THEN JsonItemsAt(s, JsonSkip(s, after + 1), all)
    ELSE JsonFail

JsonItemValue(s, val, items) ==
    IF ~val.ok THEN JsonFail
    ELSE JsonItemNext(s, JsonSkip(s, val.next), Append(items, val.v))

\* the items of an array from the value at position p on, up to its ']'
JsonItemsAt(s, p, items) == JsonItemValue(s, JsonValueAt(s, p), items)

\* an object whose first key, or whose '}', is at position q
JsonObjectFrom(s, q) ==
    IF CharAt(s, q) = "}" THEN JsonOk(JsonValue("object", "", <<>>), q + 1)
    ELSE JsonMembersAt(s, q, <<>>)

\* an array whose first item, or whose ']', is at position q
JsonArrayFrom(s, q) ==
    IF CharAt(s, q) = "]" THEN JsonOk(JsonValue("array", "", <<>>), q + 1)
    ELSE JsonItemsAt(s, q, <<>>)

\* an object or array read from position p on, with its source text
JsonWithText(s, p, r) ==
    IF r.ok THEN [r EXCEPT !.v.text = SubSeq(s, p, r.next - 1)] ELSE r

\* the value that starts at position p of s
JsonValueAt(s, p) ==
    CASE CharAt(s, p) = "{" -> JsonWithText(s, p, JsonObjectFrom(s, JsonSkip(s, p + 1)))
      [] CharAt(s, p) = "[" -> JsonWithText(s, p, JsonArrayFrom(s, JsonSkip(s, p + 1)))
      [] CharAt(s, p) = "\"" -> JsonStringAt(s, p)
      [] StartsWithAt(s, "true", p) -> JsonOk(JsonValue("true", "true", <<>>), p + 4)
      [] StartsWithAt(s, "false", p) -> JsonOk(JsonValue("false", "false", <<>>), p + 5)
      [] StartsWithAt(s, "null", p) -> JsonOk(JsonValue("null", "null", <<>>), p + 4)
      [] OTHER -> JsonNumberAt(s, p)

\* the result of JSON.parse for a value read from the start of text
JsonWhole(text, r) ==
    IF r.ok /\ JsonSkip(text, r.next) > Len(text)
    THEN [ok |-> TRUE, v |-> r.v]
    ELSE [ok |-> FALSE, v |-> JsonUndefined]

\* JSON.parse(text); ok is FALSE where JSON.parse throws
JsonParse(text) == JsonWhole(text, JsonValueAt(text, JsonSkip(text, 1)))

\* the truthiness of a value
JsonTruthy(v) ==
    CASE v.type \in {"undefined", "null", "false"} -> FALSE
      [] v.type = "string" -> v.text # ""
      [] v.type = "number" -> \E j \in 1..Len(v.text) :
                                  /\ CharAt(v.text, j) \in {"1", "2", "3", "4", "5", "6", "7", "8", "9"}
                                  /\ \A k \in 1..j : CharAt(v.text, k) \notin {"e", "E"}
      [] OTHER -> TRUE

\* key is the canonical text of an array index
JsonIsIndex(key) ==
    key # "" /\ AllDigits(key) /\ (key = "0" \/ CharAt(key, 1) # "0")

\* value[n] for an index n: an item of an array, a character of a string
JsonAt(v, n) ==
    CASE v.type = "array" /\ n < Len(v.items) -> v.items[n + 1]
      [] v.type = "string" /\ n < Len(v.text) ->
           JsonValue("string", CharAt(v.text, n + 1), <<>>)
      [] OTHER -> JsonUndefined

\* value[key] for a value that is neither null nor undefined: a member of an
\* object, an item of an array, a character of a string
JsonGet(v, key) ==
    IF v.type = "object" THEN (IF MapHas(v.items, key) THEN MapGet(v.items, key)
                               ELSE JsonUndefined)
    ELSE IF JsonIsIndex(key) THEN JsonAt(v, ParseIntOr0(key, 10))
    ELSE JsonUndefined

\* Object.values(value)[0], for a value that is neither null nor undefined
JsonFirstValue(v) ==
    CASE v.type = "object" /\ Len(v.items) > 0 -> v.items[1][2]
      [] v.type = "array" /\ Len(v.items) > 0 -> v.items[1]
      [] v.type = "string" /\ Len(v.text) > 0 -> JsonValue("string", CharAt(v.text, 1), <<>>)
      [] OTHER -> JsonUndefined

-----------------------------------------------------------------------------
(* main.js, the OLX reverse parser: the block parsers and parseOlx.  The   *)
(* state st they work on is [data, warnings].                              *)

\* parseHtmlBlock, from the attributes of html/{blockId}.xml
HtmlBlockOf(files, blockId, xmlAttrs) ==
    [blockId |-> blockId,
     title   |-> OrElse(MapGet(xmlAttrs, "display_name"), blockId),
     content |-> Trim(MapGet(files,
                    "html/" \o OrElse(MapGet(xmlAttrs, "filename"), blockId) \o ".html"))]

\* xmlFile ? parseXmlAttributes(xmlFile) : other
AttrsOrElse(xmlFile, other) == IF xmlFile # "" THEN ParseXmlAttributes(xmlFile) ELSE other

\* parseHtmlBlock(files, blockId, data, warnings)
ParseHtmlBlock(files, blockId, st) ==
    IF MapHas(st.data.textBlocks, blockId) THEN st
    ELSE [st EXCEPT !.data.textBlocks =
            MapSet(@, blockId,
                HtmlBlockOf(files, blockId,
                    AttrsOrElse(MapGet(files, "html/" \o blockId \o ".xml"), <<>>)))]

\* the places of s where /1\.00:(\S+)/ matches
YoutubeStarts(s) ==
    {p \in 1..Len(s) : /\ StartsWithAt(s, "1.00:", p)
                       /\ p + 5 <= Len(s)
                       /\ ~IsSpace(CharAt(s, p + 5))}

\* the run of non-spaces of s that starts at position first
NonSpaceRun(s, first) ==
    SubSeq(s, first, MinOrZero({j \in first..(Len(s) + 1) : IsSpace(CharAt(s, j))
                                                             \/ j = Len(s) + 1}) - 1)

\* the group of the match of /1\.00:(\S+)/ at the first of the places starts
YoutubeIdAt(s, starts) == IF starts = {} THEN "" ELSE NonSpaceRun(s, SetMin(starts) + 5)

\* the group of the first match of /1\.00:(\S+)/ in s, "" if there is none
YoutubeIdOf(s) == YoutubeIdAt(s, YoutubeStarts(s))

\* arr[0] || ''
Html5First(first) == IF JsonTruthy(first) THEN first.text ELSE ""

\* the html5Url read from what JSON.parse gave for the decoded attribute
Html5UrlFrom(sources, arr) ==
    IF ~arr.ok \/ arr.v.type = "null" THEN sources ELSE Html5First(JsonGet(arr.v, "0"))

\* the html5Url parseVideoBlock reads from a non-empty html5_sources
\* attribute: arr[0] || '' when the attribute parses as JSON; the attribute
\* itself when JSON.parse throws, or when arr is null and arr[0] throws
Html5UrlOf(sources) == Html5UrlFrom(sources, JsonParse(ReplaceAll(sources, "&quot;", "\"")))

\* parseVideoBlock, from the attributes it reads
VideoBlockOf(blockId, attrs) ==
    [blockId   |-> blockId,
     title     |-> OrElse(MapGet(attrs, "display_name"), blockId),
     youtubeId |-> IF MapGet(attrs, "youtube_id_1_0") # ""
                   THEN MapGet(attrs, "youtube_id_1_0")
                   ELSE YoutubeIdOf(MapGet(attrs, "youtube")),
     html5Url  |-> IF MapGet(attrs, "html5_sources") # ""
                   THEN Html5UrlOf(MapGet(attrs, "html5_sources"))
                   ELSE "",
     startTime |-> OrElse(MapGet(attrs, "start_time"), "00:00:00"),
     endTime   |-> OrElse(MapGet(attrs, "end_time"), "00:00:00")]

\* parseVideoBlock(files, blockId, inlineAttrs, data, warnings)
ParseVideoBlock(files, blockId, inlineAttrs, st) ==
    IF MapHas(st.data.videoBlocks, blockId) THEN st
    ELSE [st EXCEPT !.data.videoBlocks =
            MapSet(@, blockId,
                VideoBlockOf(blockId,
                    AttrsOrElse(MapGet(files, "video/" \o blockId \o ".xml"), inlineAttrs)))]

\* the text a match of /open([\s\S]*?)close/ would capture, "" without match
BetweenText(s, open, close) == Between(s, open, close, 1).text

\* m ? stripTags(m[1]).trim() : '' for the first match of open, anything, close
StrippedBetween(s, open, close) == Trim(StripTags(BetweenText(s, open, close)))

\* a match of the choice pattern whose body starts at body and whose closing
\* tag is at close, 0 if it has none
ChoiceMatchTo(xml, correct, body, close) ==
    [ok      |-> close > 0,
     correct |-> correct,
     content |-> IF close > 0 THEN SubSeq(xml, body, close - 1) ELSE "",
     end     |-> IF close > 0 THEN close + 8 ELSE 0]

\* no match of the choice pattern
NoChoice == [ok |-> FALSE, correct |-> FALSE, content |-> "", end |-> 0]

\* the match of the choice pattern from its correct attribute on
ChoiceMatchFlag(xml, attr, correct, flagLen) ==
    ChoiceMatchTo(xml, correct, attr + flagLen, IndexOf(xml, "</choice>", attr + flagLen))

\* the match of the choice pattern whose attribute starts at position attr
ChoiceMatchAttr(xml, p, attr) ==
    IF attr <= p + 7 THEN NoChoice
    ELSE IF StartsWithAt(xml, "correct=\"true\">", attr)
    THEN ChoiceMatchFlag(xml, attr, TRUE, 15)
    ELSE IF StartsWithAt(xml, "correct=\"false\">", attr)
    THEN ChoiceMatchFlag(xml, attr, FALSE, 16)
    ELSE NoChoice

\* the match of /<choice\s+correct="(true|false)">([\s\S]*?)<\/choice>/ that
\* starts at position p of xml
ChoiceMatchAt(xml, p) ==
    IF StartsWithAt(xml, "<choice", p) THEN ChoiceMatchAttr(xml, p, SkipSpaces(xml, p + 7))
    ELSE NoChoice

\* the text of a choice: everything before the hint tag when there is a hint
ChoiceText(choiceContent, hintMatch) ==
    IF hintMatch.ok
    THEN Prefix(choiceContent, IndexOf(choiceContent, "<choicehint", 1))
    ELSE choiceContent

\* one choice of parseProblemBlock, from its content and the match of its hint
ChoiceWithHint(correct, choiceContent, hintMatch) ==
    [text    |-> Trim(StripTags(ChoiceText(choiceContent, hintMatch))),
     correct |-> correct,
     hint    |-> IF hintMatch.ok THEN Trim(StripTags(hintMatch.text)) ELSE ""]

\* one choice of parseProblemBlock, from the matched correct flag and content
ChoiceOf(correct, choiceContent) ==
    ChoiceWithHint(correct, choiceContent,
        Between(choiceContent, "<choicehint>", "</choicehint>", 1))

RECURSIVE ChoicesOfXml(_, _)
\* the choice of a match and the choices after it
ChoicesAfter(xml, m) == <<ChoiceOf(m.correct, m.content)>> \o ChoicesOfXml(xml, m.end + 1)

\* the choices from the first match on, 0 if there is none
ChoicesAt(xml, p) == IF p = 0 THEN <<>> ELSE ChoicesAfter(xml, ChoiceMatchAt(xml, p))

\* the choiceRegex.exec loop of parseProblemBlock from position from on
ChoicesOfXml(xml, from) ==
    ChoicesAt(xml, MinOrZero({p \in from..Len(xml) : ChoiceMatchAt(xml, p).ok}))

\* s with the eleven characters at position i and the white space after them
\* removed, s itself for i = 0
DropAt(s, i) == IF i = 0 THEN s ELSE Prefix(s, i) \o Suffix(s, SkipSpaces(s, i + 11))

\* s.replace(/Explanation\s*/i, ''): the first "explanation", in any case,
\* removed with the whitespace after it
DropExplanation(s) == DropAt(s, IndexOf(ToLowerCase(s), "explanation", 1))

\* solMatch ? stripTags(solMatch[1]).replace(/Explanation\s*/i, '').trim() : ''
ExplanationOf(xmlFile) ==
    Trim(DropExplanation(StripTags(BetweenText(xmlFile, "<solution>", "</solution>"))))

\* parseProblemBlock, from the file of the block and its attributes
ProblemBlockOf(blockId, xmlFile, attrs) ==
    [blockId      |-> blockId,
     title        |-> OrElse(MapGet(attrs, "display_name"), blockId),
     questionText |-> StrippedBetween(xmlFile, "<label>", "</label>"),
     choices      |-> ChoicesOfXml(xmlFile, 1),
     explanation  |-> ExplanationOf(xmlFile),
     showAnswer   |-> OrElse(MapGet(attrs, "showanswer"), "attempted")]

\* parseProblemBlock, from the file of the block
ParseProblemFile(blockId, st, xmlFile) ==
    IF xmlFile = ""
    THEN [st EXCEPT !.warnings =
            Append(@, "Problem file not found: problem/" \o blockId \o ".xml")]
    ELSE [st EXCEPT !.data.problemBlocks =
            MapSet(@, blockId, ProblemBlockOf(blockId, xmlFile, ParseXmlAttributes(xmlFile)))]

\* parseProblemBlock(files, blockId, data, warnings)
ParseProblemBlock(files, blockId, st) ==
    IF MapHas(st.data.problemBlocks, blockId) THEN st
    ELSE ParseProblemFile(blockId, st, MapGet(files, "problem/" \o blockId \o ".xml"))

\* no match of the option pattern
NoOption == [ok |-> FALSE, points |-> "", content |-> "", end |-> 0]

\* a match of the option pattern whose digits end at digEnd and whose closing
\* tag is at close, 0 if it has none
OptionMatchTo(xml, attr, digEnd, close) ==
    IF close = 0 THEN NoOption
    ELSE [ok      |-> TRUE,
          points  |-> SubSeq(xml, attr + 8, digEnd),
          content |-> SubSeq(xml, digEnd + 3, close - 1),
          end     |-> close + 8]

\* the match of the option pattern whose digits end at digEnd
OptionMatchDigits(xml, attr, digEnd) ==
    IF digEnd >= attr + 8 /\ StartsWithAt(xml, "\">", digEnd + 1)
    THEN OptionMatchTo(xml, attr, digEnd, IndexOf(xml, "</option>", digEnd + 3))
    ELSE NoOption

\* the match of the option pattern whose attribute starts at position attr
OptionMatchAttr(xml, p, attr) ==
    IF attr > p + 7 /\ StartsWithAt(xml, "points=\"", attr)
    THEN OptionMatchDigits(xml, attr, DigitRunEnd(xml, attr + 8))
    ELSE NoOption

\* the match of /<option\s+points="(\d+)">([\s\S]*?)<\/option>/ that starts
\* at position p of xml
OptionMatchAt(xml, p) ==
    IF StartsWithAt(xml, "<option", p) THEN OptionMatchAttr(xml, p, SkipSpaces(xml, p + 7))
    ELSE NoOption

RECURSIVE OptionsOfXml(_, _)
\* the option of a match and the options after it
OptionsAfter(xml, m) ==
    <<[label  |-> StrippedBetween(m.content, "<label>", "</label>"),
       points |-> ParseIntOr0(m.points, 0)]>>
    \o OptionsOfXml(xml, m.end + 1)

\* the options from the first match on, 0 if there is none
OptionsAt(xml, p) == IF p = 0 THEN <<>> ELSE OptionsAfter(xml, OptionMatchAt(xml, p))

\* the optionRegex.exec loop of parseOpenResponseBlock from position from on
OptionsOfXml(xml, from) ==
    OptionsAt(xml, MinOrZero({p \in from..Len(xml) : OptionMatchAt(xml, p).ok}))

\* criteria.push({ name, options }) when the criterion has a name
CriterionOf(name, critContent) ==
    IF name # "" THEN <<[name |-> name, options |-> OptionsOfXml(critContent, 1)]>>
    ELSE <<>>

RECURSIVE CriteriaOfXml(_, _)
\* the criteria from a match of the criterion pattern on
CriteriaAfter(xml, critMatch) ==
    IF ~critMatch.ok THEN <<>>
    ELSE CriterionOf(StrippedBetween(critMatch.text, "<name>", "</name>"), critMatch.text)
            \o CriteriaOfXml(xml, critMatch.end + 1)

\* the criterionRegex.exec loop of parseOpenResponseBlock from position from on
CriteriaOfXml(xml, from) ==
    CriteriaAfter(xml, Between(xml, "<criterion>", "</criterion>", from))

\* parseOpenResponseBlock, from the file of the block and its attributes
OpenResponseBlockOf(blockId, xmlFile, attrs) ==
    [blockId        |-> blockId,
     title          |-> OrElse(MapGet(attrs, "display_name"), blockId),
     prompt         |-> StrippedBetween(xmlFile, "<description>", "</description>"),
     criteria       |-> CriteriaOfXml(xmlFile, 1),
     assessmentType |->
         IF Includes(xmlFile, "name=\"staff-assessment\"") THEN "staff"
         ELSE IF Includes(xmlFile, "name=\"peer-assessment\"") THEN "peer"
         ELSE "self"]

\* parseOpenResponseBlock, from the file of the block
ParseOpenResponseFile(blockId, st, xmlFile) ==
    IF xmlFile = ""
    THEN [st EXCEPT !.warnings =
            Append(@, "Open response file not found: openassessment/"
                        \o blockId \o ".xml")]
    ELSE [st EXCEPT !.data.openResponseBlocks =
            MapSet(@, blockId,
                OpenResponseBlockOf(blockId, xmlFile, ParseXmlAttributes(xmlFile)))]

\* parseOpenResponseBlock(files, blockId, data, warnings)
ParseOpenResponseBlock(files, blockId, st) ==
    IF MapHas(st.data.openResponseBlocks, blockId) THEN st
    ELSE ParseOpenResponseFile(blockId, st,
            MapGet(files, "openassessment/" \o blockId \o ".xml"))

\* the block type parseOlx gives to a child tag of a vertical; "" for the
\* tags it skips
BlockTypeOfTag(tag) ==
    CASE tag = "html"           -> "text"
      [] tag = "video"          -> "video"
      [] tag = "problem"        -> "problem"
      [] tag = "openassessment" -> "openresponse"
      [] OTHER                  -> ""

\* the tags skipped without a warning, lti and lti_consumer left out
SilentTagsWithoutLti == {"library_content", "discussion"}

\* the tags parseOlx skips without a warning
SilentTags == {"library_content", "discussion", "lti", "lti_consumer"}

\* the block parser the switch of parseOlx calls for a tag
ParseBlock(files, tag, blockId, block, st) ==
    CASE tag = "html"           -> ParseHtmlBlock(files, blockId, st)
      [] tag = "video"          -> ParseVideoBlock(files, blockId, block, st)
      [] tag = "problem"        -> ParseProblemBlock(files, blockId, st)
      [] tag = "openassessment" -> ParseOpenResponseBlock(files, blockId, st)
      [] OTHER                  -> st

\* if (blockType && blockId) data.structure.push({ ... })
StructurePushed(st, chapterName, seqName, vertName, blockType, blockId) ==
    IF blockId = "" THEN st
    ELSE [st EXCEPT !.data.structure =
            Append(@, [chapter    |-> chapterName,
                       sequential |-> seqName,
                       vertical   |-> vertName,
                       blockType  |-> blockType,
                       blockId    |-> blockId])]

\* the body of the loop over the blocks of a vertical, from the tag and the
\* url_name of the block
WalkBlockOf(files, chapterName, seqName, vertName, vertId, block, st, tag, blockId) ==
    IF tag \in SilentTags THEN st
    ELSE IF BlockTypeOfTag(tag) = ""
    THEN [st EXCEPT !.warnings =
            Append(@, "Unknown block type \"" \o tag \o "\" in vertical "
                        \o vertId \o ", skipping.")]
    ELSE StructurePushed(ParseBlock(files, tag, blockId, block, st),
            chapterName, seqName, vertName, BlockTypeOfTag(tag), blockId)

\* the body of the loop over the blocks of a vertical, for one block
WalkBlock(files, chapterName, seqName, vertName, vertId, block, st) ==
    WalkBlockOf(files, chapterName, seqName, vertName, vertId, block, st,
                MapGet(block, "tag"), MapGet(block, "url_name"))

\* the statements of a loop run one after the other: what an iteration left
\* behind is there in full before the next one starts
Settled(st) == Len(st.warnings) >= 0

RECURSIVE WalkBlocks(_, _, _, _, _, _, _, _)
\* the loop over the blocks of a vertical, from block i on
WalkBlocks(files, chapterName, seqName, vertName, vertId, blocks, i, st) ==
    IF i > Len(blocks) \/ ~Settled(st) THEN st
    ELSE WalkBlocks(files, chapterName, seqName, vertName, vertId, blocks, i + 1,
            WalkBlock(files, chapterName, seqName, vertName, vertId, blocks[i], st))

\* attrs.display_name || id for the root element of a file
NameOf(xml, id) == OrElse(MapGet(ParseXmlAttributes(xml), "display_name"), id)

\* the body of the loop over the vertical ids of a sequential
WalkVertical(files, chapterName, seqName, vertId, vertXml, st) ==
    IF vertXml = ""
    THEN [st EXCEPT !.warnings =
            Append(@, "Vertical file not found: vertical/" \o vertId \o ".xml")]
    ELSE WalkBlocks(files, chapterName, seqName, NameOf(vertXml, vertId), vertId,
            ExtractBlocks(vertXml), 1, st)

RECURSIVE WalkVerticals(_, _, _, _, _, _)
\* the loop over the vertical ids of a sequential, from id i on
WalkVerticals(files, chapterName, seqName, vertIds, i, st) ==
    IF i > Len(vertIds) \/ ~Settled(st) THEN st
    ELSE WalkVerticals(files, chapterName, seqName, vertIds, i + 1,
            WalkVertical(files, chapterName, seqName, vertIds[i],
                MapGet(files, "vertical/" \o vertIds[i] \o ".xml"), st))

\* the body of the loop over the sequential ids of a chapter
WalkSequential(files, chapterName, seqId, seqXml, st) ==
    IF seqXml = ""
    THEN [st EXCEPT !.warnings =
            Append(@, "Sequential file not found: sequential/" \o seqId \o ".xml")]
    ELSE WalkVerticals(files, chapterName, NameOf(seqXml, seqId),
            ExtractChildIds(seqXml, "vertical"), 1, st)

RECURSIVE WalkSequentials(_, _, _, _, _)
\* the loop over the sequential ids of a chapter, from id i on
WalkSequentials(files, chapterName, seqIds, i, st) ==
    IF i > Len(seqIds) \/ ~Settled(st) THEN st
    ELSE WalkSequentials(files, chapterName, seqIds, i + 1,
            WalkSequential(files, chapterName, seqIds[i],
                MapGet(files, "sequential/" \o seqIds[i] \o ".xml"), st))

\* the body of the loop over the chapter ids with a silent skip of a chapter
\* whose file is absent
WalkChapterSilent(files, chId, chXml, st) ==
    IF chXml = "" THEN st
    ELSE WalkSequentials(files, NameOf(chXml, chId),
            ExtractChildIds(chXml, "sequential"), 1, st)

\* the body of the loop over the chapter ids of the course
WalkChapter(files, chId, chXml, st) ==
    IF chXml = ""
    THEN [st EXCEPT !.warnings =
            Append(@, "Chapter file not found: chapter/" \o chId \o ".xml")]
    ELSE WalkSequentials(files, NameOf(chXml, chId),
            ExtractChildIds(chXml, "sequential"), 1, st)

RECURSIVE WalkChapters(_, _, _, _)
\* the loop over the chapter ids of the course, from id i on
WalkChapters(files, chapterIds, i, st) ==
    IF i > Len(chapterIds) \/ ~Settled(st) THEN st
    ELSE WalkChapters(files, chapterIds, i + 1,
            WalkChapter(files, chapterIds[i],
                MapGet(files, "chapter/" \o chapterIds[i] \o ".xml"), st))

\* step 1 of parseOlx: the info read from course.xml
InfoOfCourse(info, courseAttrs) ==
    [info EXCEPT !.org      = MapGet(courseAttrs, "org"),
                 !.courseId = MapGet(courseAttrs, "course"),
                 !.run      = MapGet(courseAttrs, "url_name")]

\* step 2 of parseOlx: the info read from the attributes of course/{run}.xml
InfoOfRun(info, runAttrs) ==
    [info EXCEPT !.courseName = MapGet(runAttrs, "display_name"),
                 !.language   = OrElse(MapGet(runAttrs, "language"), "en"),
                 !.selfPaced  = MapGet(runAttrs, "self_paced") = "true",
                 !.startDate  = OrElse(MapGet(runAttrs, "start"), @),
                 !.endDate    = OrElse(MapGet(runAttrs, "end"), @)]

\* steps 1 and 2 of parseOlx: the info read from course.xml and course/{run}.xml
InfoOfXml(info, courseAttrs, courseRunXml) ==
    IF courseRunXml = "" THEN InfoOfCourse(info, courseAttrs)
    ELSE InfoOfRun(InfoOfCourse(info, courseAttrs), ParseXmlAttributes(courseRunXml))

\* a || b || {}
FirstTruthy(a, b) ==
    IF JsonTruthy(a) THEN a
    ELSE IF JsonTruthy(b) THEN b
    ELSE JsonValue("object", "{}", <<>>)

\* policy['course/' + run] || Object.values(policy)[0] || {}
CoursePolicyOf(policy, run) ==
    FirstTruthy(JsonGet(policy, "course/" \o run), JsonFirstValue(policy))

\* the three fields step 3 of parseOlx may set.  A value that is not a string
\* is kept as its source text, and selfPaced, which the program only ever
\* tests, as its truth value.
PolicyFields(st, displayName, language, selfPaced) ==
    [st EXCEPT
        !.data.info.courseName =
            IF @ = "" /\ JsonTruthy(displayName) THEN displayName.text ELSE @,
        !.data.info.language =
            IF JsonTruthy(language) THEN language.text ELSE @,
        !.data.info.selfPaced =
            IF selfPaced.type # "undefined" THEN JsonTruthy(selfPaced) ELSE @]

\* step 3 of parseOlx, from the course policy
PolicyApply(st, coursePolicy) ==
    PolicyFields(st, JsonGet(coursePolicy, "display_name"),
                 JsonGet(coursePolicy, "language"), JsonGet(coursePolicy, "self_paced"))

\* step 3 of parseOlx, from what JSON.parse gave
PolicyParsed(st, policy, run) ==
    IF ~policy.ok \/ policy.v.type = "null"
    THEN [st EXCEPT !.warnings =
            Append(@, "Could not parse policies/" \o run \o "/policy.json")]
    ELSE PolicyApply(st, CoursePolicyOf(policy.v, run))

\* step 3 of parseOlx, for a policy file that is there
PolicyStep(st, policyFile, run) == PolicyParsed(st, JsonParse(policyFile), run)

\* the state parseOlx starts from
OlxStart == [data |-> CreateCourseData, warnings |-> <<>>]

\* step 3 of parseOlx
PolicyStepIf(st, policyFile, run) ==
    IF policyFile = "" THEN st ELSE PolicyStep(st, policyFile, run)

\* steps 2 to 4 of parseOlx, from the two files named after the run
ParseOlxRun(files, courseAttrs, run, courseRunXml, policyFile) ==
    WalkChapters(files, ExtractChildIds(courseRunXml, "chapter"), 1,
        PolicyStepIf([OlxStart EXCEPT
                        !.data.info = InfoOfXml(@, courseAttrs, courseRunXml)],
                     policyFile, run))

\* parseOlx from the run on
ParseOlxFrom(files, courseAttrs, run) ==
    ParseOlxRun(files, courseAttrs, run,
        MapGet(files, "course/" \o run \o ".xml"),
        MapGet(files, "policies/" \o run \o "/policy.json"))

\* parseOlx from the attributes of course.xml on
ParseOlxAttrs(files, courseAttrs) ==
    ParseOlxFrom(files, courseAttrs, MapGet(courseAttrs, "url_name"))

\* parseOlx from course.xml on
ParseOlxFile(files, courseXml) ==
    IF courseXml = ""
    THEN [OlxStart EXCEPT !.warnings =
            <<"Missing course.xml -- cannot determine course structure.">>]
    ELSE ParseOlxAttrs(files, ParseXmlAttributes(courseXml))

\* parseOlx without the test for a missing course.xml
ParseOlxUnguarded(files) ==
    ParseOlxAttrs(files, ParseXmlAttributes(MapGet(files, "course.xml")))

\* parseOlx(files); the dash of the first warning is written "--"
ParseOlx(files) == ParseOlxFile(files, MapGet(files, "course.xml"))

-----------------------------------------------------------------------------
(* The Build export followed by the import of its entry map: handleFile,   *)
(* the merge of the export handler, parseOlx.                              *)

\* a Problems row with its own question, choices, hints and explanation
ProblemRowCells(question, choices, hints, explanation) ==
    <<"p1", "Quiz", question>> \o choices \o <<"A">> \o hints \o <<explanation, "">>

TwoChoices == <<"one", "two", "", "", "", "">>

TwoHints == <<"hint-a", "", "", "", "", "">>

\* Structure sheets whose rows all resolve in the standard block sheets
OlxStructures ==
    {StructureRowsStd,
     <<<<"Intro", "Week 1", "Unit 1", "text", "t1">>,
       <<"Intro", "Week 2", "Unit 1", "video", "v1">>,
       <<"Intro", "Week 1", "Unit 1", "problem", "p1">>>>,
     <<<<"Intro", "Week 1", "Unit 1", "text", "t1">>,
       <<"Intro", "Week 1", "Unit 2", "text", "t1">>,
       <<"Intro", "Week 1", "Unit 1", "text", "t1">>>>,
     <<<<"Intro", "Week 1", "Unit 1", "text", "t1">>,
       <<"Outro", "Week 1", "Unit 1", "video", "v1">>,
       <<"Intro", "Week 1", "Unit 1", "openresponse", "o1">>>>,
     <<<<"R&D", "Week <1>", "Unit \"1\"", "text", "t1">>,
       <<"R&D", "Tom's week", "Unit > 1", "video", "v1">>>>,
     <<<<"Intro!", "Week 1", "Unit 1", "text", "t1">>,
       <<"Intro?", "Week 1", "Unit 1", "video", "v1">>>>,
     <<<<"A", "B|C", "Unit 1", "text", "t1">>,
       <<"A|B", "C", "Unit 2", "video", "v1">>>>,
     <<<<"a&lt;b", "Week 1", "Unit 1", "text", "t1">>>>,
     <<<<"Intro", "Week 1", "x &amp; y", "problem", "p1">>>>,
     <<<<"Intro", "Week 1", "Unit 1", "TEXT", "t1">>,
       <<"Intro", "Week  1", "Unit 1", "Video", "v1">>>>,
     <<<<"Intro", "Week 1", "Unit 1", "text", "t9">>>>,
     <<<<"Intro", "Week 1", "", "text", "t1">>>>,
     <<>>}

OlxInfos ==
    {InfoRowsStd,
     <<<<"Course Name", "Q&A \"101\"">>, <<"Organization", "Demo<X>">>,
       <<"Course ID", "D101">>, <<"Run", "r1">>, <<"Language", "es">>,
       <<"Start Date", "2024-01-05">>, <<"End Date", "2024-06-30T12:00:00Z">>>>,
     <<<<"Course Name", "Demo Course">>, <<"Organization", "DemoX">>,
       <<"Course ID", "D101">>, <<"Run", "2024_T1">>, <<"Start Date", "soon">>>>,
     <<<<"Course Name", "Demo Course">>, <<"Organization", "DemoX">>,
       <<"Course ID", "D101">>>>}

OlxTexts ==
    {<<<<"t1", "Welcome", "Hello">>>>,
     <<<<"t1", "Welcome", "Line one\nline two\n\nSecond part">>>>,
     <<<<"t1", "Q&A \"x\"", "<p>a &amp; b</p>">>>>,
     <<<<"t1", "It's <new>", "<div>\n  <p>Hello</p>\n</div>">>>>,
     <<<<"t1", "", "">>>>,
     <<<<"t1", "Welcome", "1 < 2">>>>,
     <<<<"t1", "Welcome", "<p>Hello</p>">>, <<"t2", "Unused", "<p>Bye</p>">>>>}

OlxVideos ==
    {<<<<"v1", "", "", "https://x.org/a.mp4", "", "">>>>,
     <<<<"v1", "Clip & more", "abc123", "https://x.org/a.mp4?x=1&y=2", "", "00:01:00">>>>,
     <<<<"v1", "Clip", "", "", "00:00:05", "">>>>,
     <<<<"v1", "Clip", "abc 123", "a\"b", "00:00:05", "00:01:00">>>>}

OlxProblems ==
    {<<ProblemRowCells("a & b", TwoChoices, TwoHints, "Because.")>>,
     <<ProblemRowCells("Which?", <<"x < y", "x > y", "", "", "", "">>, TwoHints, "Because.")>>,
     <<ProblemRowCells("Which?", TwoChoices, <<"say \"no\"", "it's so", "", "", "", "">>, "")>>,
     <<ProblemRowCells("Which  one?", TwoChoices, <<"", "", "", "", "", "">>, "Because.")>>,
     <<ProblemRowCells("", TwoChoices, TwoHints, "Explanation of it")>>,
     <<ProblemRowCells("Which?", TwoChoices, TwoHints, "A & B")>>,
     <<ProblemRow("p1", AllSix, " a  F ")>>}

OlxOras ==
    {<<<<"o1", "", "", "Ideas", "Poor=0;Fair=1;Good=2", "Style", " Plain = 3 ;Rich=05", "">>>>,
     <<<<"o1", "Essay", "Discuss.", "Depth", "Bad=-1;Fine=1", "", "", "staff">>>>,
     <<<<"o1", "Essay", "Discuss.", "Depth", "Only;Half=2.5;=4;Twice=1=2", "", "", "self">>>>,
     <<<<"o1", "Essay", "Discuss.", "Depth", "Fair & square=1;Good=12", "", "", "self">>>>,
     <<<<"o1", "Essay", "Say why a < b.", "Depth of  thought", "Low=0;High=3", "", "", "peer">>>>,
     <<<<"o1", "Essay", "Discuss.", "Depth", "Low=0;High=3", "Q&A", "No=0;Yes=1", "peer">>>>,
     <<<<"o1", "Essay", "Explain name=\"staff-assessment\" here.", "Depth", "Low=0;High=3",
         "", "", "peer">>>>,
     <<<<"o1", "On name=\"peer-assessment\"", "Discuss.", "name=\"staff-assessment\"",
         "Low=0;High=3", "", "", "self">>>>,
     <<<<"o1", "Essay", "<assessment name=\"self-assessment\"/>", "Depth", "Low=0;High=3",
         "", "", "staff">>>>}

\* the workbooks handleFile is given: one sheet varies, the others are standard
OlxInputs ==
    UNION {
      {Workbook(x, StructureRowsStd, TextRowsStd, VideoRowsStd, ProblemRowsStd, OraRowsStd) :
         x \in OlxInfos},
      {Workbook(InfoRowsStd, x, TextRowsStd, VideoRowsStd, ProblemRowsStd, OraRowsStd) :
         x \in OlxStructures},
      {Workbook(InfoRowsStd, StructureRowsStd, x, VideoRowsStd, ProblemRowsStd, OraRowsStd) :
         x \in OlxTexts},
      {Workbook(InfoRowsStd, StructureRowsStd, TextRowsStd, x, ProblemRowsStd, OraRowsStd) :
         x \in OlxVideos},
      {Workbook(InfoRowsStd, StructureRowsStd, TextRowsStd, VideoRowsStd, x, OraRowsStd) :
         x \in OlxProblems},
      {Workbook(InfoRowsStd, StructureRowsStd, TextRowsStd, VideoRowsStd, ProblemRowsStd, x) :
         x \in OlxOras}}

\* the first hex ids generateId can return for a load
OlxSeeds == {1, 255}

OlxInit ==
    /\ owb \in OlxInputs
    /\ opc = "load"
    /\ oload = ParseStart
    /\ ohierarchy = <<>>
    /\ ofiles = <<>>
    /\ ores = OlxStart

OlxIdle ==
    /\ owb = <<>>
    /\ opc = "idle"
    /\ oload = ParseStart
    /\ ohierarchy = <<>>
    /\ ofiles = <<>>
    /\ ores = OlxStart

\* handleFile: parseWorkbook, a fresh idMap, buildHierarchy
OlxLoad ==
    /\ opc = "load"
    /\ oload' = ParseWorkbook(owb)
    /\ \E seed \in OlxSeeds :
         ohierarchy' = BuildHierarchy(oload'.data.structure,
                           BuildIdMap(oload'.data.structure, seed))
    /\ opc' = "loaded"
    /\ UNCHANGED <<owb, ofiles, ores>>
    /\ UNCHANGED olxOthers

\* the export handler up to generateTarGz: the merged fragments of the generators
OlxExport ==
    /\ opc = "loaded"
    /\ ofiles' = GenerateAll(oload.data, ohierarchy)
    /\ opc' = "exported"
    /\ UNCHANGED <<owb, oload, ohierarchy, ores>>
    /\ UNCHANGED olxOthers

\* handleImportFile after extractTarGz: parseOlx on the entry map
OlxImport ==
    /\ opc = "exported"
    /\ ores' = ParseOlx(ofiles)
    /\ opc' = "done"
    /\ UNCHANGED <<owb, oload, ohierarchy, ofiles>>
    /\ UNCHANGED olxOthers

-----------------------------------------------------------------------------
(* The round trip of a CourseData through the generators and parseOlx.     *)

\* every row of the structure names a block its block map holds
Resolves(data) ==
    \A i \in 1..Len(data.structure) :
        MapHas(BlockMapOf(data, data.structure[i].blockType), data.structure[i].blockId)

\* the number of times a row occurs in a structure
RowCount(structure, row) == Cardinality({i \in 1..Len(structure) : structure[i] = row})

\* two structures with the same rows, each as many times
SameRows(a, b) ==
    /\ Len(a) = Len(b)
    /\ \A i \in 1..Len(a) : RowCount(a, a[i]) = RowCount(b, a[i])

\* C3: for a CourseData whose rows all resolve in their block maps, building
\* the hierarchy, running the generators and parseOlx on the entry map gives
\* a structure with the same multiset of rows.
StructureRoundTrip ==
    (opc = "done" /\ Resolves(oload.data))
        => SameRows(oload.data.structure, ores.data.structure)

\* a text with its white space normalised: runs as one space, none at the ends
Norm(s) == Trim(ReplaceSpaceRuns(s, " "))

\* the block ids a block map has before the export and after the import
Decoded(before, after) == MapKeys(before) \cap MapKeys(after)

\* the choices of a problem come back with the same texts and hints
SameChoices(a, b) ==
    /\ Len(a) = Len(b)
    /\ \A k \in 1..Len(a) :
          /\ Norm(a[k].text) = Norm(b[k].text)
          /\ Norm(a[k].hint) = Norm(b[k].hint)

\* the criteria of an open response block come back with the same names
SameCriterionNames(a, b) ==
    /\ Len(a) = Len(b)
    /\ \A c \in 1..Len(a) : Norm(a[c].name) = Norm(b[c].name)

\* C4: every block that is encoded by its generator and decoded by parseOlx
\* comes back with the same title, content, question text, choice texts and
\* hints, explanation, prompt and criterion names, up to white space.
BlockRoundTrip ==
    opc = "done" =>
        /\ \A id \in Decoded(oload.data.textBlocks, ores.data.textBlocks) :
              /\ Norm(MapGet(oload.data.textBlocks, id).title)
                    = Norm(MapGet(ores.data.textBlocks, id).title)
              /\ Norm(MapGet(oload.data.textBlocks, id).content)
                    = Norm(MapGet(ores.data.textBlocks, id).content)
        /\ \A id \in Decoded(oload.data.videoBlocks, ores.data.videoBlocks) :
              Norm(MapGet(oload.data.videoBlocks, id).title)
                    = Norm(MapGet(ores.data.videoBlocks, id).title)
        /\ \A id \in Decoded(oload.data.problemBlocks, ores.data.problemBlocks) :
              /\ Norm(MapGet(oload.data.problemBlocks, id).title)
                    = Norm(MapGet(ores.data.problemBlocks, id).title)
              /\ Norm(MapGet(oload.data.problemBlocks, id).questionText)
                    = Norm(MapGet(ores.data.problemBlocks, id).questionText)
              /\ SameChoices(MapGet(oload.data.problemBlocks, id).choices,
                             MapGet(ores.data.problemBlocks, id).choices)
              /\ Norm(MapGet(oload.data.problemBlocks, id).explanation)
                    = Norm(MapGet(ores.data.problemBlocks, id).explanation)
        /\ \A id \in Decoded(oload.data.openResponseBlocks, ores.data.openResponseBlocks) :
              /\ Norm(MapGet(oload.data.openResponseBlocks, id).title)
                    = Norm(MapGet(ores.data.openResponseBlocks, id).title)
              /\ Norm(MapGet(oload.data.openResponseBlocks, id).prompt)
                    = Norm(MapGet(ores.data.openResponseBlocks, id).prompt)
              /\ SameCriterionNames(MapGet(oload.data.openResponseBlocks, id).criteria,
                                    MapGet(ores.data.openResponseBlocks, id).criteria)

\* the options of a criterion come back as many, with the same labels and
\* points, in the same order
SameOptions(a, b) ==
    /\ Len(a) = Len(b)
    /\ \A k \in 1..Len(a) : a[k].label = b[k].label /\ a[k].points = b[k].points

\* C10: an open response block that is encoded by generateOpenResponseBlocks
\* and decoded by parseOpenResponseBlock comes back, for each criterion, with
\* as many options, with the same labels and the same points, in the same order.
OptionRoundTrip ==
    opc = "done" =>
        \A id \in Decoded(oload.data.openResponseBlocks, ores.data.openResponseBlocks) :
            \A c \in 1..Len(MapGet(oload.data.openResponseBlocks, id).criteria) :
                /\ c <= Len(MapGet(ores.data.openResponseBlocks, id).criteria)
                /\ SameOptions(MapGet(oload.data.openResponseBlocks, id).criteria[c].options,
                               MapGet(ores.data.openResponseBlocks, id).criteria[c].options)

\* the lines of a generated open response file between <assessments> and
\* </assessments>
AssessmentLines(xml) ==
    SubSeq(xml, IndexOf(xml, "  <assessments>\n", 1) + Len("  <assessments>\n"),
           IndexOf(xml, "  </assessments>\n", 1) - 1)

\* C24: for assessmentType self, peer and staff, generateOpenResponseBlocks
\* emits respectively only a self-assessment step, a peer-assessment step
\* followed by a self-assessment step, and only a required staff-assessment
\* step; decoding the emitted file with parseOpenResponseBlock returns the
\* same assessmentType for each of the three values.
AssessmentRoundTrip ==
    opc \in {"exported", "done"} =>
        \A id \in MapKeys(oload.data.openResponseBlocks) :
            LET block == MapGet(oload.data.openResponseBlocks, id)
                xml   == MapGet(ofiles, "openassessment/" \o id \o ".xml")
            IN  block.assessmentType \in {"self", "peer", "staff"} =>
                  /\ AssessmentLines(xml)
                        = CASE block.assessmentType = "self" ->
                                 "    <assessment name=\"self-assessment\"/>\n"
                            [] block.assessmentType = "peer" ->
                                 "    <assessment name=\"peer-assessment\" must_grade=\"5\""
                                    \o " must_be_graded_by=\"3\"/>\n"
                                    \o "    <assessment name=\"self-assessment\"/>\n"
                            [] block.assessmentType = "staff" ->
                                 "    <assessment name=\"staff-assessment\""
                                    \o " required=\"true\"/>\n"
                  /\ (opc = "done" /\ MapHas(ores.data.openResponseBlocks, id)) =>
                        MapGet(ores.data.openResponseBlocks, id).assessmentType
                            = block.assessmentType

\* C24 witness: a peer-assessed block whose prompt holds the text
\* name="staff-assessment" has been encoded and decoded, and is peer-assessed
AssessmentRoundTripWitness ==
    /\ opc = "done"
    /\ MapHas(oload.data.openResponseBlocks, "o1")
    /\ MapGet(oload.data.openResponseBlocks, "o1").assessmentType = "peer"
    /\ Includes(MapGet(oload.data.openResponseBlocks, "o1").prompt,
                "name=\"staff-assessment\"")
    /\ MapHas(ores.data.openResponseBlocks, "o1")
    /\ MapGet(ores.data.openResponseBlocks, "o1").assessmentType = "peer"

\* the fragments the export handler merges, in the order it merges them
Fragments(courseData, hierarchy) ==
    <<GenerateCourse(courseData.info, hierarchy),
      GenerateChapters(hierarchy),
      GenerateSequentials(hierarchy),
      GenerateVerticals(hierarchy),
      GenerateHtmlBlocks(courseData.textBlocks),
      GenerateVideoBlocks(courseData.videoBlocks),
      GenerateProblemBlocks(courseData.problemBlocks),
      GenerateOpenResponseBlocks(courseData.openResponseBlocks)>>

\* the number of nodes and blocks a file is written for, by generator: four
\* files of the course, one file a chapter, sequential, vertical, video,
\* problem and open response, two files a text block
FilesWritten(courseData, hierarchy) ==
    <<4, Len(hierarchy), Len(AllSequentials(hierarchy)), Len(AllVerticals(hierarchy)),
      2 * Len(courseData.textBlocks), Len(courseData.videoBlocks),
      Len(courseData.problemBlocks), Len(courseData.openResponseBlocks)>>

\* C25: for every CourseData loaded by handleFile no path is written twice
\* while the export handler merges the fragments of the generators: the
\* fragments of different generators have disjoint paths, and within a
\* generator two different chapters, sequentials, verticals or blocks never
\* map to the same file path; distinct name tuples receive distinct keys of
\* the id lookup, also when names contain the separator '|'.
PathsWrittenOnce ==
    opc \in {"exported", "done"} =>
        /\ \A g \in 1..8 :
              Len(Fragments(oload.data, ohierarchy)[g])
                  = FilesWritten(oload.data, ohierarchy)[g]
        /\ \A g, h \in 1..8 :
              g # h => MapKeys(Fragments(oload.data, ohierarchy)[g])
                          \cap MapKeys(Fragments(oload.data, ohierarchy)[h]) = {}
        /\ \A i, j \in 1..Len(oload.data.structure) :
              LET a == oload.data.structure[i]
                  b == oload.data.structure[j]
              IN  /\ a.chapter # b.chapter => ChKey(a) # ChKey(b)
                  /\ <<a.chapter, a.sequential>> # <<b.chapter, b.sequential>>
                        => SeqKey(a) # SeqKey(b)
                  /\ <<a.chapter, a.sequential, a.vertical>>
                          # <<b.chapter, b.sequential, b.vertical>>
                        => VertKey(a) # VertKey(b)

\* course/{run}.xml as the export handler has it in allFiles
CourseRunXml ==
    MapGet(ofiles, "course/" \o OrElse(oload.data.info.run, "course_run") \o ".xml")

\* the claim of C18 for one date of the info and the attribute made from it
DateAttrOk(xml, name, dateStr) ==
    IF dateStr = "" THEN TRUE
    ELSE IF FormatEdxDate(dateStr) = "" THEN ~Includes(xml, " " \o name \o "=\"")
    ELSE /\ Includes(xml, " " \o name \o "=\"" \o FormatEdxDate(dateStr) \o "\"")
         /\ CharAt(FormatEdxDate(dateStr), Len(FormatEdxDate(dateStr))) = "Z"

\* C18: generateCourse leaves the start (end) attribute out of
\* course/{run}.xml when startDate (endDate) is a non-empty text that is no
\* date, and writes the ISO-8601 value ending in Z when it is a date.
UnparseableDateOmitted ==
    opc \in {"exported", "done"} =>
        /\ DateAttrOk(CourseRunXml, "start", oload.data.info.startDate)
        /\ DateAttrOk(CourseRunXml, "end", oload.data.info.endDate)

-----------------------------------------------------------------------------
(* parseOlx on entry maps as an import hands them over: exports with       *)
(* entries missing, and archives other tools wrote.                        *)

\* a map without the entry of key k
MapWithout(m, k) == SelectSeq(m, LAMBDA e : e[1] # k)

\* a structure with three chapters, two sequentials in the second of them
\* and two verticals in the second of these
WalkStructure ==
    <<<<"Alpha", "Week 1", "Unit 1", "text", "t1">>,
      <<"Beta", "Week 1", "Unit 1", "video", "v1">>,
      <<"Beta", "Week 2", "Unit 1", "problem", "p1">>,
      <<"Beta", "Week 2", "Unit 2", "openresponse", "o1">>,
      <<"Gamma", "Week 1", "Unit 1", "text", "t1">>>>

\* the CourseData parseWorkbook reads from the workbook of that structure
WalkData ==
    ParseWorkbook(Workbook(InfoRowsStd, WalkStructure, TextRowsStd, VideoRowsStd,
                           ProblemRowsStd, OraRowsStd)).data

\* the entry map the export handler makes of a CourseData
ExportOf(data) ==
    GenerateAll(data, BuildHierarchy(data.structure, BuildIdMap(data.structure, 1)))

\* an export, and the export without one of its entries
ExportMaps(files) == {files} \cup {MapWithout(files, k) : k \in MapKeys(files)}

\* maps without course.xml: none, an export without it, and some of its
\* entries on their own
HeadlessOf(files, headless) ==
    {<<>>,
     MapWithout(headless, "course/2024_T1.xml"),
     MapWithout(headless, "policies/2024_T1/policy.json"),
     SelectSeq(files, LAMBDA e : e[1] = "course/2024_T1.xml"),
     SelectSeq(files, LAMBDA e : StartsWithAt(e[1], "policies/", 1))}

HeadlessMaps(files) == HeadlessOf(files, MapWithout(files, "course.xml"))

\* course/{run}.xml with all three of display_name, language and self_paced,
\* with display_name only, and without display_name
RunXmls ==
    {"<course display_name=\"From XML\" language=\"es\" self_paced=\"true\">\n</course>\n",
     "<course display_name=\"From XML\">\n</course>\n",
     "<course language=\"es\" start=\"2024-01-05T00:00:00Z\">\n</course>\n"}

\* policy.json: the three fields under the key of the run, under another key,
\* some of them, none, values that are no strings, and texts that are no JSON
\* object
Policies ==
    {"{\"course/r1\": {\"display_name\": \"From policy\", \"language\": \"fr\", \"self_paced\": false}}",
     "{\"course/other\": {\"display_name\": \"From policy\", \"language\": \"fr\", \"self_paced\": true}}",
     "{\"course/r1\": {\"language\": \"fr\"}}",
     "{\"course/r1\": {\"self_paced\": false}}",
     "{\"course/r1\": {\"display_name\": \"From policy\", \"self_paced\": null}}",
     "{\"course/r1\": {\"language\": \"\", \"display_name\": 7}}",
     "{\"course/r1\": {}}",
     "{}",
     "null",
     "[{\"language\": \"de\"}]",
     "{\"course/r1\": "}

PolicyMaps ==
    {<<<<"course.xml", "<course url_name=\"r1\" org=\"OrgX\" course=\"C1\"/>\n">>,
       <<"course/r1.xml", x>>,
       <<"policies/r1/policy.json", p>>>> : x \in RunXmls, p \in Policies}

\* an archive another tool wrote: a chapter listed twice, a sequential and a
\* vertical without file, blocks of known, skipped and unknown tags, a video
\* written inline, blocks without file
ForeignMap ==
    <<<<"course.xml", "<course url_name=\"r1\" org=\"OrgX\" course=\"C1\"/>\n">>,
      <<"course/r1.xml",
        "<course display_name=\"Foreign\">\n  <chapter url_name=\"c1\"/>\n"
            \o "  <chapter url_name=\"c1\"/>\n</course>\n">>,
      <<"chapter/c1.xml",
        "<chapter display_name=\"One\">\n  <sequential url_name=\"s9\"/>\n"
            \o "  <sequential url_name=\"s1\"/>\n</chapter>\n">>,
      <<"sequential/s1.xml",
        "<sequential display_name=\"Seq\">\n  <vertical url_name=\"u1\"/>\n"
            \o "  <vertical url_name=\"u9\"/>\n</sequential>\n">>,
      <<"vertical/u1.xml",
        "<vertical display_name=\"Unit\">\n  <html url_name=\"h1\"/>\n"
            \o "  <discussion url_name=\"d1\"/>\n  <poll url_name=\"q1\"/>\n"
            \o "  <video url_name=\"vid1\" display_name=\"Inline\" youtube_id_1_0=\"abc\"/>\n"
            \o "  <problem url_name=\"p9\"/>\n  <openassessment url_name=\"o9\"/>\n"
            \o "</vertical>\n">>>>

\* an archive with two verticals that hold children of every kind of tag:
\* the four block tags, the four tags without content, and others
TagsMap ==
    <<<<"course.xml", "<course url_name=\"r1\" org=\"OrgX\" course=\"C1\"/>\n">>,
      <<"course/r1.xml",
        "<course display_name=\"Tags\">\n  <chapter url_name=\"c1\"/>\n</course>\n">>,
      <<"chapter/c1.xml",
        "<chapter display_name=\"One\">\n  <sequential url_name=\"s1\"/>\n</chapter>\n">>,
      <<"sequential/s1.xml",
        "<sequential display_name=\"Seq\">\n  <vertical url_name=\"u1\"/>\n"
            \o "  <vertical url_name=\"u2\"/>\n</sequential>\n">>,
      <<"vertical/u1.xml",
        "<vertical display_name=\"Unit 1\">\n  <library_content url_name=\"l1\"/>\n"
            \o "  <html url_name=\"h1\"/>\n  <lti url_name=\"x1\"/>\n"
            \o "  <annotatable url_name=\"a1\"/>\n  <lti_consumer url_name=\"x2\"/>\n"
            \o "  <video url_name=\"v1\"/>\n  <discussion url_name=\"d1\"/>\n"
            \o "</vertical>\n">>,
      <<"vertical/u2.xml",
        "<vertical display_name=\"Unit 2\">\n  <text url_name=\"t1\"/>\n"
            \o "  <problem url_name=\"p1\"/>\n  <openresponse url_name=\"o1\"/>\n"
            \o "  <HTML url_name=\"h2\"/>\n  <openassessment url_name=\"o1\"/>\n"
            \o "  <lti_consumer_2 url_name=\"x3\"/>\n</vertical>\n">>,
      <<"html/h1.xml", "<html display_name=\"H\" filename=\"h1\"/>\n">>,
      <<"html/h1.html", "<p>Hi</p>">>>>

\* the entry maps parseOlx is run on, from an export
ImportMapsOf(files) ==
    ExportMaps(files) \cup HeadlessMaps(files) \cup PolicyMaps \cup {ForeignMap, TagsMap}

ImportMaps == ImportMapsOf(ExportOf(WalkData))

\* handleImportFile has the entry map of an archive and calls parseOlx
ParseOlxInit ==
    /\ owb = <<>>
    /\ opc = "exported"
    /\ oload = ParseStart
    /\ ohierarchy = <<>>
    /\ ofiles \in ImportMaps
    /\ ores = OlxStart

\* C11: for every entry map without a course.xml entry, whatever its other
\* entries, parseOlx returns the CourseData of createCourseData (no structure
\* rows, four empty block maps, default info) and exactly one warning.
MissingCourseXml ==
    (opc = "done" /\ ~MapHas(ofiles, "course.xml")) =>
        /\ ores.data = CreateCourseData
        /\ Len(ores.warnings) = 1

MissingCourseXmlWitness ==
    /\ opc = "done"
    /\ ~MapHas(ofiles, "course.xml")
    /\ MapHas(ofiles, "course/2024_T1.xml")
    /\ Len(ofiles) > 3
    /\ ores.warnings = <<"Missing course.xml -- cannot determine course structure.">>

\* C15: in every result of parseOlx each StructureRow's (blockType, blockId)
\* resolves in the block map of its type: a row is appended only for a block
\* that was parsed, and a problem or open-response reference whose file is
\* missing adds a warning and no row.
RowsResolve == opc = "done" => Resolves(ores.data)

\* the attributes of the root element of course/{run}.xml
RunAttrsOf(files, run) == ParseXmlAttributes(MapGet(files, "course/" \o run \o ".xml"))

\* the decoded info keeps what the attributes of course/{run}.xml supplied
KeepsXmlValues(info, runAttrs) ==
    /\ MapGet(runAttrs, "display_name") # "" =>
            info.courseName = MapGet(runAttrs, "display_name")
    /\ MapGet(runAttrs, "language") # "" =>
            info.language = MapGet(runAttrs, "language")
    /\ MapHas(runAttrs, "self_paced") =>
            info.selfPaced = (MapGet(runAttrs, "self_paced") = "true")

\* C16: the display name, the language and the self-paced flag of policy.json
\* are a fallback only: where course/{run}.xml supplied a value, the decoded
\* CourseInfo keeps the XML value.
PolicyOnlyFallback ==
    (opc = "done" /\ MapHas(ofiles, "course.xml")) =>
        KeepsXmlValues(ores.data.info, RunAttrsOf(ofiles, ores.data.info.run))

RECURSIVE Flatten(_)
\* the members of the sequences of a sequence, in order
Flatten(parts) ==
    IF Len(parts) = 0 THEN <<>>
    ELSE IF Len(parts) = 1 THEN parts[1]
    ELSE Flatten(SubSeq(parts, 1, Len(parts) \div 2))
            \o Flatten(SubSeq(parts, Len(parts) \div 2 + 1, Len(parts)))

\* what the branches under one reference add, one after the other: rows of the
\* structure, and warnings of files not found
Branches(parts) ==
    [rows    |-> Flatten([i \in 1..Len(parts) |-> parts[i].rows]),
     missing |-> Flatten([i \in 1..Len(parts) |-> parts[i].missing])]

\* a reference whose file is absent: one warning, no rows
AbsentBranch(kind, path) ==
    [rows |-> <<>>, missing |-> <<kind \o " file not found: " \o path \o ".xml">>]

\* the blocks of a vertical that get a row
RowBlocks(blocks) ==
    SelectSeq(blocks, LAMBDA b : /\ BlockTypeOfTag(MapGet(b, "tag")) # ""
                                 /\ MapGet(b, "url_name") # "")

\* the rows of the blocks of a vertical
BlockRows(chapterName, seqName, vertName, blocks) ==
    [rows    |-> [i \in 1..Len(blocks) |->
                    [chapter    |-> chapterName,
                     sequential |-> seqName,
                     vertical   |-> vertName,
                     blockType  |-> BlockTypeOfTag(MapGet(blocks[i], "tag")),
                     blockId    |-> MapGet(blocks[i], "url_name")]],
     missing |-> <<>>]

VerticalBranch(chapterName, seqName, vertId, vertXml) ==
    IF vertXml = "" THEN AbsentBranch("Vertical", "vertical/" \o vertId)
    ELSE BlockRows(chapterName, seqName, NameOf(vertXml, vertId),
                   RowBlocks(ExtractBlocks(vertXml)))

VerticalBranches(files, chapterName, seqName, vertIds) ==
    Branches([i \in 1..Len(vertIds) |->
        VerticalBranch(chapterName, seqName, vertIds[i],
                       MapGet(files, "vertical/" \o vertIds[i] \o ".xml"))])

SequentialBranch(files, chapterName, seqId, seqXml) ==
    IF seqXml = "" THEN AbsentBranch("Sequential", "sequential/" \o seqId)
    ELSE VerticalBranches(files, chapterName, NameOf(seqXml, seqId),
                          ExtractChildIds(seqXml, "vertical"))

SequentialBranches(files, chapterName, seqIds) ==
    Branches([i \in 1..Len(seqIds) |->
        SequentialBranch(files, chapterName, seqIds[i],
                         MapGet(files, "sequential/" \o seqIds[i] \o ".xml"))])

ChapterBranch(files, chId, chXml) ==
    IF chXml = "" THEN AbsentBranch("Chapter", "chapter/" \o chId)
    ELSE SequentialBranches(files, NameOf(chXml, chId),
                            ExtractChildIds(chXml, "sequential"))

ChapterBranches(files, chapterIds) ==
    Branches([i \in 1..Len(chapterIds) |->
        ChapterBranch(files, chapterIds[i],
                      MapGet(files, "chapter/" \o chapterIds[i] \o ".xml"))])

\* the rows and the warnings of files not found that the references listed
\* from course/{run}.xml down stand for, every one taken in the order listed
ListedBranches(files) ==
    IF MapGet(files, "course.xml") = "" THEN Branches(<<>>)
    ELSE ChapterBranches(files,
            ExtractChildIds(
                MapGet(files, "course/"
                    \o MapGet(ParseXmlAttributes(MapGet(files, "course.xml")), "url_name")
                    \o ".xml"),
                "chapter"))

\* the warnings of chapter, sequential and vertical files not found
BranchWarnings(warnings) ==
    SelectSeq(warnings, LAMBDA w :
        \/ StartsWithAt(w, "Chapter file not found: ", 1)
        \/ StartsWithAt(w, "Sequential file not found: ", 1)
        \/ StartsWithAt(w, "Vertical file not found: ", 1))

ChildrenWithFile(files, path, kind) ==
    SelectSeq(ExtractChildIds(MapGet(files, path), kind),
              LAMBDA id : MapGet(files, kind \o "/" \o id \o ".xml") # "")

\* the ids of the verticals the walk of parseOlx opens, one for every time it
\* opens the vertical, in the order of the walk
WalkedVerticals(files) ==
    LET run      == MapGet(ParseXmlAttributes(MapGet(files, "course.xml")), "url_name")
        chapters == ChildrenWithFile(files, "course/" \o run \o ".xml", "chapter")
        seqsOf(c) == ChildrenWithFile(files, "chapter/" \o c \o ".xml", "sequential")
        vertsOf(s) == ChildrenWithFile(files, "sequential/" \o s \o ".xml", "vertical")
    IN  IF MapGet(files, "course.xml") = "" THEN <<>>
        ELSE Flatten([c \in 1..Len(chapters) |->
                Flatten([s \in 1..Len(seqsOf(chapters[c])) |->
                    vertsOf(seqsOf(chapters[c])[s])])])

\* the children of a vertical: the elements with a url_name, by their tag
ChildrenOf(files, vertId) == ExtractBlocks(MapGet(files, "vertical/" \o vertId \o ".xml"))

\* the warnings of children whose tag is neither one of the four block tags
\* nor one of the four tags without content, for the verticals walked
UnknownTagWarnings(files) ==
    Flatten([v \in 1..Len(WalkedVerticals(files)) |->
        LET other == SelectSeq(ChildrenOf(files, WalkedVerticals(files)[v]),
                        LAMBDA b : MapGet(b, "tag") \notin
                            {"html", "video", "problem", "openassessment",
                             "library_content", "discussion", "lti", "lti_consumer"})
        IN  [i \in 1..Len(other) |->
                "Unknown block type \"" \o MapGet(other[i], "tag") \o "\" in vertical "
                    \o WalkedVerticals(files)[v] \o ", skipping."]])

\* the type and the id of the rows of the children of the four block tags,
\* for the verticals walked
BlockTagRows(files) ==
    Flatten([v \in 1..Len(WalkedVerticals(files)) |->
        LET known == SelectSeq(ChildrenOf(files, WalkedVerticals(files)[v]),
                        LAMBDA b : MapGet(b, "tag") \in
                            {"html", "video", "problem", "openassessment"})
        IN  [i \in 1..Len(known) |->
                <<CASE MapGet(known[i], "tag") = "html"           -> "text"
                    [] MapGet(known[i], "tag") = "video"          -> "video"
                    [] MapGet(known[i], "tag") = "problem"        -> "problem"
                    [] MapGet(known[i], "tag") = "openassessment" -> "openresponse",
                  MapGet(known[i], "url_name")>>]])

\* C23: the type-to-tag mapping of the vertical generator and the tag
\* dispatch of the decoder are inverse on the four block kinds (text and
\* html, video and video, problem and problem, openresponse and
\* openassessment); in the decoder a child with tag library_content,
\* discussion, lti or lti_consumer adds no warning and no row, and a child
\* with any other tag adds exactly one warning and no row.
TagDispatch ==
    opc = "done" =>
        /\ \A t \in {"text", "video", "problem", "openresponse"} :
              BlockTypeOfTag(BlockTypeTag(t)) = t
        /\ \A g \in {"html", "video", "problem", "openassessment"} :
              BlockTypeTag(BlockTypeOfTag(g)) = g
        /\ SelectSeq(ores.warnings, LAMBDA w : StartsWithAt(w, "Unknown block type ", 1))
              = UnknownTagWarnings(ofiles)
        /\ [i \in 1..Len(ores.data.structure) |->
                <<ores.data.structure[i].blockType, ores.data.structure[i].blockId>>]
              = BlockTagRows(ofiles)

\* C23 witness: the archive whose verticals hold children of all the tags has
\* been decoded: four rows for the children of the four block tags, no
\* warning for the four tags without content, one warning for each of the
\* five children of other tags
TagDispatchWitness ==
    /\ opc = "done"
    /\ ofiles = TagsMap
    /\ [i \in 1..Len(ores.data.structure) |-> ores.data.structure[i].blockType]
          = <<"text", "video", "problem", "openresponse">>
    /\ Len(UnknownTagWarnings(ofiles)) = 5
    /\ \A i \in 1..Len(ores.warnings) :
          /\ ~StartsWithAt(ores.warnings[i], "Unknown block type \"lti", 1)
             \/ StartsWithAt(ores.warnings[i], "Unknown block type \"lti_consumer_2\"", 1)
          /\ ~StartsWithAt(ores.warnings[i], "Unknown block type \"discussion", 1)
          /\ ~StartsWithAt(ores.warnings[i], "Unknown block type \"library_content", 1)

-----------------------------------------------------------------------------
(* excel-writer: courseDataToExcel.  A sheet is its rows of cell texts, the *)
(* header row first; a cell no key of the row object fills is "".          *)

\* the rows added to the Course Info sheet
InfoSheet(info) ==
    <<<<"Field", "Value">>,
      <<"Course Name", info.courseName>>,
      <<"Organization", info.org>>,
      <<"Course ID", info.courseId>>,
      <<"Run", info.run>>,
      <<"Language", OrElse(info.language, "en")>>,
      <<"Start Date", info.startDate>>,
      <<"End Date", info.endDate>>,
      <<"Self-Paced", IF info.selfPaced THEN "Yes" ELSE "No">>>>

\* courseData.structure.forEach(row => ws2.addRow({ ... }))
StructureSheet(structure) ==
    <<StructureHeader>> \o
    [i \in 1..Len(structure) |->
        <<structure[i].chapter, structure[i].sequential, structure[i].vertical,
          structure[i].blockType, structure[i].blockId>>]

\* the loop over courseData.textBlocks
TextSheet(textBlocks) ==
    <<TextHeader>> \o
    [i \in 1..Len(textBlocks) |->
        <<textBlocks[i][2].blockId, textBlocks[i][2].title, textBlocks[i][2].content>>]

\* the loop over courseData.videoBlocks
VideoSheet(videoBlocks) ==
    <<VideoHeader>> \o
    [i \in 1..Len(videoBlocks) |->
        <<videoBlocks[i][2].blockId, videoBlocks[i][2].title, videoBlocks[i][2].youtubeId,
          videoBlocks[i][2].html5Url, videoBlocks[i][2].startTime,
          videoBlocks[i][2].endTime>>]

\* row['choice_' + letter] for the k-th of the six letters
ChoiceSlot(choices, k) == IF k <= Len(choices) THEN choices[k].text ELSE ""

\* row['hint_' + letter] for the k-th of the six letters
HintSlot(choices, k) == IF k <= Len(choices) THEN choices[k].hint ELSE ""

\* letters[i] is undefined from the seventh choice on, and the callback of
\* block.choices.map calls toUpperCase on it for a choice marked correct
CorrectThrows(choices) == \E i \in 1..Len(choices) : choices[i].correct /\ i > Len(ChoiceLetters)

\* block.choices.map(...).filter(Boolean).join(',') when the callback returns
CorrectCell(choices) ==
    Join(Flatten([i \in 1..Len(choices) |->
                    IF choices[i].correct /\ i <= Len(ChoiceLetters)
                    THEN <<ToUpperCase(ChoiceLetters[i])>> ELSE <<>>]), ",")

\* the row object of one problem block, as the cells of its row
ProblemSheetRow(block) ==
    <<block.blockId, block.title, block.questionText>>
        \o [k \in 1..6 |-> ChoiceSlot(block.choices, k)]
        \o <<CorrectCell(block.choices)>>
        \o [k \in 1..6 |-> HintSlot(block.choices, k)]
        \o <<block.explanation, block.showAnswer>>

\* the loop over courseData.problemBlocks
ProblemSheet(problemBlocks) ==
    <<ProblemHeader>> \o
    [i \in 1..Len(problemBlocks) |-> ProblemSheetRow(problemBlocks[i][2])]

\* the loop over courseData.problemBlocks throws in one of its rows
ProblemSheetThrows(problemBlocks) ==
    \E i \in 1..Len(problemBlocks) : CorrectThrows(problemBlocks[i][2].choices)

\* maxCriteria: the largest number of criteria of a block, 1 at least
MaxCriteria(openResponseBlocks) ==
    Max(1, SetMax({0} \cup {Len(openResponseBlocks[i][2].criteria) :
                                i \in 1..Len(openResponseBlocks)}))

\* oraCols: the headers of the Open Response sheet
OraColumns(maxCriteria) ==
    <<"block_id", "title", "prompt">>
        \o Flatten([i \in 1..maxCriteria |->
                <<"criterion_" \o ToRadix(i, 10) \o "_name",
                  "criterion_" \o ToRadix(i, 10) \o "_options">>])
        \o <<"assessment_type">>

\* crit.options.map(o => label=points).join(';')
OptionsCell(options) ==
    Join([k \in 1..Len(options) |-> options[k].label \o "=" \o IntText(options[k].points)],
         ";")

\* the row object of one open response block, as the cells of its row
OraSheetRow(block, maxCriteria) ==
    <<block.blockId, block.title, block.prompt>>
        \o Flatten([i \in 1..maxCriteria |->
                IF i <= Len(block.criteria)
                THEN <<block.criteria[i].name, OptionsCell(block.criteria[i].options)>>
                ELSE <<"", "">>])
        \o <<block.assessmentType>>

\* the Open Response sheet for a number of criteria columns
OraSheetOf(openResponseBlocks, maxCriteria) ==
    <<OraColumns(maxCriteria)>> \o
    [i \in 1..Len(openResponseBlocks) |-> OraSheetRow(openResponseBlocks[i][2], maxCriteria)]

OraSheet(openResponseBlocks) ==
    OraSheetOf(openResponseBlocks, MaxCriteria(openResponseBlocks))

\* the workbook courseDataToExcel writes when none of its loops throws
ExcelBook(courseData) ==
    <<[name |-> "Course Info", rows |-> InfoSheet(courseData.info)],
      [name |-> "Structure", rows |-> StructureSheet(courseData.structure)],
      [name |-> "Text Blocks", rows |-> TextSheet(courseData.textBlocks)],
      [name |-> "Videos", rows |-> VideoSheet(courseData.videoBlocks)],
      [name |-> "Problems", rows |-> ProblemSheet(courseData.problemBlocks)],
      [name |-> "Open Response", rows |-> OraSheet(courseData.openResponseBlocks)]>>

\* courseDataToExcel(courseData): the promise it returns is rejected when the
\* loop over the problem blocks throws, and resolves to the workbook otherwise
CourseDataToExcel(courseData) ==
    IF ProblemSheetThrows(courseData.problemBlocks)
    THEN [ok |-> FALSE, wb |-> <<>>]
    ELSE [ok |-> TRUE, wb |-> ExcelBook(courseData)]

-----------------------------------------------------------------------------
(* main.js, Build mode: handleFile and the click handler of exportBtn as   *)
(* they interleave.  handleFile awaits the read of the file and            *)
(* parseWorkbook; the click handler awaits generateTarGz and downloadBlob  *)
(* and leaves a timer behind.  The browser delivers a click only to a      *)
(* button that is displayed and not disabled.                              *)

\* the largest number of calls of handleFile
MaxLoads == 2

\* the largest number of clicks on exportBtn
MaxClicks == 2

\* the files dropped on the page: a workbook that decodes without errors, one
\* whose Structure sheet names a block no sheet defines, and a file that
\* ExcelJS cannot open
UiFiles ==
    <<[name |-> "good.xlsx", opens |-> TRUE, wb |-> WorkbookStd, fault |-> ""],
      [name |-> "bad.xlsx", opens |-> TRUE,
       wb |-> Workbook(InfoRowsStd, <<<<"Intro", "Week 1", "Unit 1", "text", "t9">>>>,
                       TextRowsStd, VideoRowsStd, ProblemRowsStd, OraRowsStd),
       fault |-> ""],
      [name |-> "bars.xlsx", opens |-> TRUE,
       wb |-> Workbook(<<<<"Field", "Value">>, <<"Course Name", "Bars">>,
                         <<"Organization", "DemoX">>, <<"Course ID", "B102">>,
                         <<"Run", "2025_T1">>>>,
                       <<<<"A", "B|C", "Unit 1", "text", "t1">>,
                         <<"A|B", "C", "Unit 2", "video", "v1">>>>,
                       TextRowsStd, VideoRowsStd, ProblemRowsStd, OraRowsStd),
       fault |-> ""],
      [name |-> "notes.txt", opens |-> FALSE, wb |-> <<>>,
       fault |-> "Can't find end of central directory : is this a zip file ?"]>>

\* escapeHtml(str): the innerHTML of an element whose textContent is str
EscapeHtml(str) == ReplaceAll(ReplaceAll(ReplaceAll(str, "&", "&amp;"), "<", "&lt;"), ">", "&gt;")

\* result.errors.map(e => `<li>${escapeHtml(e)}</li>`).join('')
ErrorsHtml(errors) ==
    ConcatAll([i \in 1..Len(errors) |-> "<li>" \o EscapeHtml(errors[i]) \o "</li>"])

\* a sequence without its i-th element
RemoveAt(seq, i) == SubSeq(seq, 1, i - 1) \o SubSeq(seq, i + 1, Len(seq))

\* the label the timers of the export handler restore
ExportLabel == "Export .tar.gz for EdX"

UiInit ==
    /\ ufileName = ""
    /\ uloads = <<>>
    /\ ucalls = 0
    /\ uresult = ParseStart
    /\ uloaded = FALSE
    /\ uidMap = <<>>
    /\ uhierarchy = <<>>
    /\ uerrorsList = ""
    /\ udisabled = FALSE
    /\ ushown = FALSE
    /\ ulabel = ExportLabel
    /\ uexports = <<>>
    /\ utimers = 0
    /\ uclicks = 0

UiIdle == UiInit

\* the course names of the workbooks and of the archives dropped on the page
CourseNames == {"Demo Course", "Bars", "Small", ""}

\* sanitizeUrlName(courseName || 'course') for each of them, computed once
SanitizedNames ==
    [n \in CourseNames |-> SanitizeUrlName(OrElse(n, "course"))]

\* handleFile(file) up to its first await
UiHandleFile ==
    /\ ucalls < MaxLoads
    /\ \E f \in 1..Len(UiFiles) :
          /\ ufileName' = UiFiles[f].name
          /\ uloads' = Append(uloads, f)
    /\ ucalls' = ucalls + 1
    /\ UNCHANGED <<uresult, uloaded, uidMap, uhierarchy, uerrorsList, udisabled, ushown,
                   ulabel, uexports, utimers, uclicks>>
    /\ UNCHANGED uiOthers

\* handleFile from the return of parseWorkbook on: the rest of the try block
UiDecoded ==
    /\ \E i \in 1..Len(uloads) :
          /\ UiFiles[uloads[i]].opens
          /\ uresult' = ParseWorkbook(UiFiles[uloads[i]].wb)
          /\ uloads' = RemoveAt(uloads, i)
    /\ \E seed \in OlxSeeds : uidMap' = BuildIdMap(uresult'.data.structure, seed)
    /\ uhierarchy' = BuildHierarchy(uresult'.data.structure, uidMap')
    /\ uloaded' = TRUE
    /\ uerrorsList' = IF Len(uresult'.errors) > 0 THEN ErrorsHtml(uresult'.errors) ELSE ""
    /\ udisabled' = (Len(uresult'.errors) > 0)
    /\ ushown' = TRUE
    /\ UNCHANGED <<ufileName, ucalls, ulabel, uexports, utimers, uclicks>>
    /\ UNCHANGED uiOthers

\* handleFile when parseWorkbook throws: the catch block
UiDecodeFailed ==
    /\ \E i \in 1..Len(uloads) :
          /\ ~UiFiles[uloads[i]].opens
          /\ uerrorsList' = "<li>Error parsing file: "
                                \o EscapeHtml(UiFiles[uloads[i]].fault) \o "</li>"
          /\ uloads' = RemoveAt(uloads, i)
    /\ UNCHANGED <<ufileName, ucalls, uresult, uloaded, uidMap, uhierarchy, udisabled,
                   ushown, ulabel, uexports, utimers, uclicks>>
    /\ UNCHANGED uiOthers

\* the click handler of exportBtn up to await generateTarGz(allFiles); data
\* and errors keep, for the run, the courseData allFiles was made from and the
\* error list of the decode it came from
UiClick ==
    /\ ushown /\ ~udisabled
    /\ uloaded
    /\ uclicks < MaxClicks
    /\ uclicks' = uclicks + 1
    /\ udisabled' = TRUE
    /\ ulabel' = "Generating..."
    /\ uexports' = Append(uexports,
                      [phase    |-> "tar",
                       allFiles |-> GenerateAll(uresult.data, uhierarchy),
                       filename |-> "",
                       data     |-> uresult.data,
                       errors   |-> uresult.errors])
    /\ UNCHANGED <<ufileName, uloads, ucalls, uresult, uloaded, uidMap, uhierarchy,
                   uerrorsList, ushown, utimers>>
    /\ UNCHANGED uiOthers

\* the click handler from the return of generateTarGz to await downloadBlob:
\* filename is made from courseData as it is by now
UiArchived ==
    /\ \E e \in 1..Len(uexports) :
          /\ uexports[e].phase = "tar"
          /\ uexports' =
                [uexports EXCEPT ![e] =
                    [@ EXCEPT !.phase = "download",
                              !.filename =
                                  SanitizedNames[uresult.data.info.courseName]
                                      \o "_export.tar.gz"]]
    /\ UNCHANGED <<ufileName, uloads, ucalls, uresult, uloaded, uidMap, uhierarchy,
                   uerrorsList, udisabled, ushown, ulabel, utimers, uclicks>>
    /\ UNCHANGED uiOthers

\* the click handler from the return of downloadBlob on: the 4 s timer is set
UiDownloaded ==
    /\ \E e \in 1..Len(uexports) :
          /\ uexports[e].phase = "download"
          /\ ulabel' = "Downloaded: " \o uexports[e].filename
          /\ uexports' = RemoveAt(uexports, e)
    /\ utimers' = utimers + 1
    /\ UNCHANGED <<ufileName, uloads, ucalls, uresult, uloaded, uidMap, uhierarchy,
                   uerrorsList, udisabled, ushown, uclicks>>
    /\ UNCHANGED uiOthers

\* the click handler when generateTarGz or downloadBlob rejects: the catch
\* block, which sets the 3 s timer
UiExportFailed ==
    /\ \E e \in 1..Len(uexports) : uexports' = RemoveAt(uexports, e)
    /\ ulabel' = "Export Failed"
    /\ utimers' = utimers + 1
    /\ UNCHANGED <<ufileName, uloads, ucalls, uresult, uloaded, uidMap, uhierarchy,
                   uerrorsList, udisabled, ushown, uclicks>>
    /\ UNCHANGED uiOthers

\* a timer callback that restores the label and leaves the button disabled
UiTimerLabelOnly ==
    /\ utimers > 0
    /\ utimers' = utimers - 1
    /\ ulabel' = ExportLabel
    /\ UNCHANGED <<ufileName, uloads, ucalls, uresult, uloaded, uidMap, uhierarchy,
                   uerrorsList, udisabled, ushown, uexports, uclicks>>
    /\ UNCHANGED uiOthers

\* the callback of either timer of the click handler
UiTimer ==
    /\ utimers > 0
    /\ utimers' = utimers - 1
    /\ ulabel' = ExportLabel
    /\ udisabled' = FALSE
    /\ UNCHANGED <<ufileName, uloads, ucalls, uresult, uloaded, uidMap, uhierarchy,
                   uerrorsList, ushown, uexports, uclicks>>
    /\ UNCHANGED uiOthers

\* C2: in Build mode, however file loads, clicks on the export button and the
\* timers of the export handler interleave, the export button is disabled
\* whenever the error list of the most recently decoded workbook is not empty,
\* and no run of the export handler works on a CourseData whose decode
\* reported errors.
ExportBlockedOnErrors ==
    /\ (uloaded /\ Len(uresult.errors) > 0) => udisabled
    /\ \A e \in 1..Len(uexports) : Len(uexports[e].errors) = 0

\* C14: at most one run of the Build export handler is between its click and
\* the completion of downloadBlob at any time, however clicks, file loads that
\* complete during an export and the re-enable timers interleave: no second
\* run starts while one awaits generateTarGz or downloadBlob.
OneExportAtATime == Len(uexports) <= 1

\* the different values of f over the rows of a structure
TuplesOf(structure, f(_)) == {f(structure[i]) : i \in 1..Len(structure)}

\* the keys of an id lookup that start with the given prefix
KeysOfKind(idMap, prefix) == {k \in MapKeys(idMap) : StartsWithAt(k, prefix, 1)}

\* C28: in every state in which the Build export handler can run, courseData,
\* idMap and hierarchy belong to the same load: hierarchy equals
\* buildHierarchy(courseData.structure, idMap), idMap was built fresh for that
\* load and holds one id per distinct chapter, (chapter, sequential) and
\* (chapter, sequential, vertical) tuple of courseData.structure, under any
\* interleaving of overlapping handleFile calls.
SameLoad ==
    (uloaded /\ ushown /\ ~udisabled) =>
        /\ uhierarchy = BuildHierarchy(uresult.data.structure, uidMap)
        /\ MapKeys(uidMap)
              = UNION {{ChKey(uresult.data.structure[i]), SeqKey(uresult.data.structure[i]),
                        VertKey(uresult.data.structure[i])} :
                          i \in 1..Len(uresult.data.structure)}
        /\ Cardinality(KeysOfKind(uidMap, "ch:"))
              = Cardinality(TuplesOf(uresult.data.structure, LAMBDA r : <<r.chapter>>))
        /\ Cardinality(KeysOfKind(uidMap, "seq:"))
              = Cardinality(TuplesOf(uresult.data.structure,
                                     LAMBDA r : <<r.chapter, r.sequential>>))
        /\ Cardinality(KeysOfKind(uidMap, "vert:"))
              = Cardinality(TuplesOf(uresult.data.structure,
                                     LAMBDA r : <<r.chapter, r.sequential, r.vertical>>))

-----------------------------------------------------------------------------
(* main.js, Import mode: handleImportFile and the click handler of          *)
(* importExportBtn.  handleImportFile awaits the read of the file; the      *)
(* click handler awaits courseDataToExcel and downloadBlob and leaves a     *)
(* timer behind.                                                            *)

\* the largest number of calls of handleImportFile
MaxImports == 2

\* the largest number of clicks on importExportBtn
MaxExcelClicks == 2

\* n choices, the c-th of them marked correct
ChoicesUpTo(n, c) ==
    [k \in 1..n |-> [text |-> "opt" \o ToRadix(k, 10), correct |-> k = c, hint |-> ""]]

\* a problem block of n choices, the c-th of them marked correct
QuizOf(n, c) ==
    [blockId |-> "p1", title |-> "Quiz", questionText |-> "Which?",
     choices |-> ChoicesUpTo(n, c), explanation |-> "", showAnswer |-> "attempted"]

\* the entries of a course of one chapter and one sequential, whose verticals
\* are listed as given; the file of u1 is there and holds one problem
SmallCourse(quiz, verticalRefs) ==
    <<<<"course.xml", "<course url_name=\"r1\" org=\"OrgX\" course=\"C1\"/>\n">>,
      <<"course/r1.xml",
        "<course display_name=\"Small\">\n  <chapter url_name=\"c1\"/>\n</course>\n">>,
      <<"chapter/c1.xml",
        "<chapter display_name=\"One\">\n  <sequential url_name=\"s1\"/>\n</chapter>\n">>,
      <<"sequential/s1.xml",
        "<sequential display_name=\"Seq\">\n" \o verticalRefs \o "</sequential>\n">>,
      <<"vertical/u1.xml",
        "<vertical display_name=\"Unit\">\n  <problem url_name=\"p1\"/>\n</vertical>\n">>,
      <<"problem/p1.xml", ProblemXml(quiz)>>>>

\* a file that is a gzipped tar of the entries
ArchiveFile(name, entries) ==
    [name |-> name, unpacks |-> TRUE, blob |-> GenerateTarGz(entries, 0), fault |-> ""]

\* the files dropped on the import zone: courses whose problem has two, six
\* and seven choices, one of them with a vertical whose file is not in the
\* archive, an archive without course.xml, and a file that is no gzip
ImpFiles ==
    <<ArchiveFile("two.tar.gz",
                  SmallCourse(QuizOf(2, 2), "  <vertical url_name=\"u1\"/>\n")),
      ArchiveFile("six.tar.gz",
                  SmallCourse(QuizOf(6, 6), "  <vertical url_name=\"u1\"/>\n")),
      ArchiveFile("seven.tar.gz",
                  SmallCourse(QuizOf(7, 7), "  <vertical url_name=\"u1\"/>\n")),
      ArchiveFile("gaps.tar.gz",
                  SmallCourse(QuizOf(7, 1),
                      "  <vertical url_name=\"u1\"/>\n  <vertical url_name=\"u2\"/>\n")),
      ArchiveFile("headless.tar.gz",
                  <<<<"chapter/c1.xml", "<chapter display_name=\"One\">\n</chapter>\n">>>>),
      [name |-> "notes.txt", unpacks |-> FALSE, blob |-> GzipSync(<<>>),
       fault |-> "invalid gzip data"]>>

\* for each file, what parseOlx(extractTarGz(buffer)) returns
ImpResults ==
    [f \in 1..Len(ImpFiles) |-> ParseOlx(ExtractTarGz(ImpFiles[f].blob))]

\* result.warnings.map(w => `<li>${escapeHtml(w)}</li>`).join('')
WarningsHtml(warnings) ==
    ConcatAll([i \in 1..Len(warnings) |-> "<li>" \o EscapeHtml(warnings[i]) \o "</li>"])

\* the seven numbers updateStats writes
StatsOf(data) ==
    <<Cardinality({data.structure[i].chapter : i \in 1..Len(data.structure)}),
      Cardinality({<<data.structure[i].chapter, data.structure[i].sequential>> :
                     i \in 1..Len(data.structure)}),
      Cardinality({<<data.structure[i].chapter, data.structure[i].sequential,
                     data.structure[i].vertical>> : i \in 1..Len(data.structure)}),
      Len(data.textBlocks), Len(data.videoBlocks), Len(data.problemBlocks),
      Len(data.openResponseBlocks)>>

\* the label the timers of the Excel export handler restore
ExcelLabel == "Export to Excel (.xlsx)"

ImpInit ==
    /\ ifileName = ""
    /\ iloads = <<>>
    /\ icalls = 0
    /\ idata = CreateCourseData
    /\ iloaded = FALSE
    /\ iwarnings = ""
    /\ ititle = ""
    /\ istats = <<>>
    /\ ipreview = <<>>
    /\ idisabled = FALSE
    /\ ishown = FALSE
    /\ ilabel = ExcelLabel
    /\ iexports = <<>>
    /\ itimers = 0
    /\ iclicks = 0

ImpIdle == ImpInit

\* handleImportFile(file) up to its await of file.arrayBuffer()
ImpHandleFile ==
    /\ icalls < MaxImports
    /\ \E f \in 1..Len(ImpFiles) :
          /\ ifileName' = ImpFiles[f].name
          /\ iloads' = Append(iloads, f)
    /\ icalls' = icalls + 1
    /\ UNCHANGED <<idata, iloaded, iwarnings, ititle, istats, ipreview, idisabled, ishown,
                   ilabel, iexports, itimers, iclicks>>
    /\ UNCHANGED impOthers

\* the rest of the try block if only an import without warnings enabled the
\* button
ImpDecodedIfClean(warnings) ==
    /\ iloaded' = TRUE
    /\ iwarnings' = IF Len(warnings) > 0 THEN WarningsHtml(warnings) ELSE ""
    /\ ititle' = IF idata'.info.courseName # "" THEN idata'.info.courseName ELSE ititle
    /\ istats' = StatsOf(idata')
    /\ \E seed \in OlxSeeds :
          ipreview' = BuildHierarchy(idata'.structure, BuildIdMap(idata'.structure, seed))
    /\ idisabled' = (Len(warnings) > 0)
    /\ ishown' = TRUE
    /\ UNCHANGED <<ifileName, icalls, ilabel, iexports, itimers, iclicks>>
    /\ UNCHANGED impOthers

\* handleImportFile from the buffer on when extractTarGz returns: the rest of
\* the try block, with the warnings parseOlx returned
ImpDecodedWith(warnings) ==
    /\ iloaded' = TRUE
    /\ iwarnings' = IF Len(warnings) > 0 THEN WarningsHtml(warnings) ELSE ""
    /\ ititle' = IF idata'.info.courseName # "" THEN idata'.info.courseName ELSE ititle
    /\ istats' = StatsOf(idata')
    /\ \E seed \in OlxSeeds :
          ipreview' = BuildHierarchy(idata'.structure, BuildIdMap(idata'.structure, seed))
    /\ idisabled' = FALSE
    /\ ishown' = TRUE
    /\ UNCHANGED <<ifileName, icalls, ilabel, iexports, itimers, iclicks>>
    /\ UNCHANGED impOthers

\* handleImportFile from the buffer on for the i-th pending call, with the
\* result of parseOlx
ImpDecodedAs(i, result) ==
    /\ idata' = result.data
    /\ iloads' = RemoveAt(iloads, i)
    /\ ImpDecodedWith(result.warnings)

\* handleImportFile from the buffer on when extractTarGz returns
ImpDecoded ==
    \E i \in 1..Len(iloads) :
        /\ ImpFiles[iloads[i]].unpacks
        /\ ImpDecodedAs(i, ImpResults[iloads[i]])

\* handleImportFile when extractTarGz throws: the catch block
ImpDecodeFailed ==
    /\ \E i \in 1..Len(iloads) :
          /\ ~ImpFiles[iloads[i]].unpacks
          /\ iwarnings' = "<li>Import failed: " \o EscapeHtml(ImpFiles[iloads[i]].fault)
                              \o "</li>"
          /\ iloads' = RemoveAt(iloads, i)
    /\ UNCHANGED <<ifileName, icalls, idata, iloaded, ititle, istats, ipreview, idisabled,
                   ishown, ilabel, iexports, itimers, iclicks>>
    /\ UNCHANGED impOthers

\* the click handler of importExportBtn up to await courseDataToExcel(...)
ImpClick ==
    /\ ishown /\ ~idisabled
    /\ iloaded
    /\ iclicks < MaxExcelClicks
    /\ iclicks' = iclicks + 1
    /\ idisabled' = TRUE
    /\ ilabel' = "Generating Excel..."
    /\ iexports' = Append(iexports,
                      [phase    |-> "excel",
                       data     |-> idata,
                       book     |-> CourseDataToExcel(idata),
                       filename |-> ""])
    /\ UNCHANGED <<ifileName, iloads, icalls, idata, iloaded, iwarnings, ititle, istats,
                   ipreview, ishown, itimers>>
    /\ UNCHANGED impOthers

\* the click handler from the return of courseDataToExcel to await
\* downloadBlob: filename is made from importedCourseData as it is by now
ImpWritten ==
    /\ \E e \in 1..Len(iexports) :
          /\ iexports[e].phase = "excel"
          /\ iexports[e].book.ok
          /\ iexports' =
                [iexports EXCEPT ![e] =
                    [@ EXCEPT !.phase = "download",
                              !.filename =
                                  SanitizedNames[idata.info.courseName]
                                      \o "_edx_manifest.xlsx"]]
    /\ UNCHANGED <<ifileName, iloads, icalls, idata, iloaded, iwarnings, ititle, istats,
                   ipreview, idisabled, ishown, ilabel, itimers, iclicks>>
    /\ UNCHANGED impOthers

\* the click handler from the return of downloadBlob on: the 4 s timer is set
ImpDownloaded ==
    /\ \E e \in 1..Len(iexports) :
          /\ iexports[e].phase = "download"
          /\ ilabel' = "Downloaded: " \o iexports[e].filename
          /\ iexports' = RemoveAt(iexports, e)
    /\ itimers' = itimers + 1
    /\ UNCHANGED <<ifileName, iloads, icalls, idata, iloaded, iwarnings, ititle, istats,
                   ipreview, idisabled, ishown, iclicks>>
    /\ UNCHANGED impOthers

\* the click handler when courseDataToExcel or downloadBlob rejects: the catch
\* block, which sets the 3 s timer
ImpExportFailed ==
    /\ \E e \in 1..Len(iexports) : iexports' = RemoveAt(iexports, e)
    /\ ilabel' = "Export Failed"
    /\ itimers' = itimers + 1
    /\ UNCHANGED <<ifileName, iloads, icalls, idata, iloaded, iwarnings, ititle, istats,
                   ipreview, idisabled, ishown, iclicks>>
    /\ UNCHANGED impOthers

\* the callback of either timer of the click handler
ImpTimer ==
    /\ itimers > 0
    /\ itimers' = itimers - 1
    /\ ilabel' = ExcelLabel
    /\ idisabled' = FALSE
    /\ UNCHANGED <<ifileName, iloads, icalls, idata, iloaded, iwarnings, ititle, istats,
                   ipreview, ishown, iexports, iclicks>>
    /\ UNCHANGED impOthers

\* the page after a step that ends an import which returned result: the data
\* stored, the button enabled and displayed, and warnings in the panel if
\* there are any
ImportShownAfter(result) ==
    /\ iloaded'
    /\ idata' = result.data
    /\ ~idisabled'
    /\ ishown'
    /\ (iwarnings' # "") = (Len(result.warnings) > 0)

\* C13: in Import mode, whenever extractTarGz and parseOlx return, the Excel
\* export button is enabled and displayed and the decoded CourseData is stored
\* for export, whatever the number of warnings; the warnings only decide what
\* the warnings panel shows.
ImportEnablesExport ==
    [][\A i \in 1..Len(iloads) :
          (iloads' = RemoveAt(iloads, i) /\ ImpFiles[iloads[i]].unpacks) =>
              ImportShownAfter(ImpResults[iloads[i]])]_vars

\* an import with a warning and with rows has completed, and the button can
\* be clicked
ImportEnablesExportWitness ==
    /\ iloaded
    /\ iloads = <<>>
    /\ iwarnings = "<li>Vertical file not found: vertical/u2.xml</li>"
    /\ Len(idata.structure) = 1
    /\ ~idisabled
    /\ ishown

\* the letters A, B, ... of the choices marked correct, joined by commas
MarkedLetters(choices) ==
    Join(Flatten([i \in 1..Len(choices) |->
                    IF choices[i].correct THEN <<SubSeq("ABCDEFGHIJ", i, i)>> ELSE <<>>]),
         ",")

\* the row written for a problem block: its first six choices in the slots
\* choice_a to choice_f, and the letters of the marked choices in correct
ProblemRowWritten(row, block) ==
    /\ Len(row) = Len(ProblemHeader)
    /\ row[1] = block.blockId
    /\ \A k \in 1..6 :
          row[3 + k] = IF k <= Len(block.choices) THEN block.choices[k].text ELSE ""
    /\ row[10] = MarkedLetters(block.choices)

\* C19: for every ProblemBlock, with fewer than six, six or more than six
\* choices, courseDataToExcel writes a Problems row without throwing, fills at
\* most the six slots a..f, and the correct cell is the comma-joined uppercase
\* letters of the choices marked correct.
ProblemRowsWritten ==
    \A e \in 1..Len(iexports) :
        /\ iexports[e].book.ok
        /\ Len(iexports[e].book.wb[5].rows) = Len(iexports[e].data.problemBlocks) + 1
        /\ \A i \in 1..Len(iexports[e].data.problemBlocks) :
              ProblemRowWritten(iexports[e].book.wb[5].rows[i + 1],
                                iexports[e].data.problemBlocks[i][2])

-----------------------------------------------------------------------------
(* escapeXml of the generators and decodeXmlEntities of the decoder: a      *)
(* string is escaped, written as an attribute value, and read back.        *)

\* the pieces the strings are made of: the five characters escapeXml
\* replaces, the semicolon, a letter and the names of entities
EntTokens == {"&", "<", ">", "\"", "'", ";", "a", "lt", "amp", "quot"}

\* the strings handed to escapeXml
EntStrings == {ConcatAll(t) : t \in SeqsUpTo(EntTokens, MaxTokens)}

EntInit ==
    /\ estr \in EntStrings
    /\ epc = "start"
    /\ eescaped = ""
    /\ edecoded = ""
    /\ eattr = ""

EntIdle ==
    /\ estr = ""
    /\ epc = "idle"
    /\ eescaped = ""
    /\ edecoded = ""
    /\ eattr = ""

\* a generator calls escapeXml(str)
EntEscape ==
    /\ epc = "start"
    /\ eescaped' = EscapeXml(estr)
    /\ epc' = "escaped"
    /\ UNCHANGED <<estr, edecoded, eattr>>
    /\ UNCHANGED entOthers

\* the decoder calls decodeXmlEntities on the escaped text
EntDecode ==
    /\ epc = "escaped"
    /\ edecoded' = DecodeXmlEntities(eescaped)
    /\ epc' = "decoded"
    /\ UNCHANGED <<estr, eescaped, eattr>>
    /\ UNCHANGED entOthers

\* the escaped text is the value of an attribute of a root element, and the
\* decoder calls parseXmlAttributes on the element
EntReadAttribute ==
    /\ epc = "decoded"
    /\ eattr' = MapGet(ParseXmlAttributes("<block display_name=\"" \o eescaped \o "\"/>"),
                       "display_name")
    /\ epc' = "read"
    /\ UNCHANGED <<estr, eescaped, edecoded>>
    /\ UNCHANGED entOthers

\* C27: decodeXmlEntities is a left inverse of escapeXml: for every string s
\* over an alphabet that includes & < > " ' ; and letters,
\* decodeXmlEntities(escapeXml(s)) = s, also for strings that already hold
\* entity-like text such as "&lt;" or "&amp;"; an attribute value read by
\* parseXmlAttributes comes back likewise.
EntityRoundTrip ==
    /\ epc \in {"decoded", "read"} => edecoded = estr
    /\ epc = "read" => eattr = estr

-----------------------------------------------------------------------------
(* Specifications: one per part of the program; the variables of the other *)
(* parts keep their idle values.                                           *)

InitTar == TarInit /\ HierIdle /\ ParseIdle /\ OlxIdle /\ UiIdle /\ ImpIdle /\ EntIdle

NextTar ==
    \/ TarPack
    \/ TarOpen
    \/ TarWalk
    \/ TarReturn
    \/ TarHeader

SpecTar == InitTar /\ [][NextTar]_vars

InitUntar == UntarInit /\ HierIdle /\ ParseIdle /\ OlxIdle /\ UiIdle /\ ImpIdle /\ EntIdle

NextUntar ==
    \/ TarOpen
    \/ TarWalk
    \/ TarReturn

SpecUntar == InitUntar /\ [][NextUntar]_vars

InitHier == HierInit /\ TarIdle /\ ParseIdle /\ OlxIdle /\ UiIdle /\ ImpIdle /\ EntIdle

NextHier ==
    \/ HierCall
    \/ HierRow
    \/ HierReturn

SpecHier == InitHier /\ [][NextHier]_vars

InitParse == ParseInit /\ TarIdle /\ HierIdle /\ OlxIdle /\ UiIdle /\ ImpIdle /\ EntIdle

NextParse ==
    \/ ParseInfoSheet
    \/ ParseStructureSheet
    \/ ParseTextSheet
    \/ ParseVideoSheet
    \/ ParseProblemSheet
    \/ ParseOraSheet
    \/ ParseCross

SpecParse == InitParse /\ [][NextParse]_vars

InitOlx == OlxInit /\ TarIdle /\ HierIdle /\ ParseIdle /\ UiIdle /\ ImpIdle /\ EntIdle

NextOlx ==
    \/ OlxLoad
    \/ OlxExport
    \/ OlxImport

SpecOlx == InitOlx /\ [][NextOlx]_vars

InitParseOlx == ParseOlxInit /\ TarIdle /\ HierIdle /\ ParseIdle /\ UiIdle /\ ImpIdle /\ EntIdle

NextParseOlx ==
    \/ OlxImport

SpecParseOlx == InitParseOlx /\ [][NextParseOlx]_vars

InitImp == ImpInit /\ TarIdle /\ HierIdle /\ ParseIdle /\ OlxIdle /\ UiIdle /\ EntIdle

NextImp ==
    \/ ImpHandleFile
    \/ ImpDecoded
    \/ ImpDecodeFailed
    \/ ImpClick
    \/ ImpWritten
    \/ ImpDownloaded
    \/ ImpExportFailed
    \/ ImpTimer

SpecImp == InitImp /\ [][NextImp]_vars

InitUi == UiInit /\ TarIdle /\ HierIdle /\ ParseIdle /\ OlxIdle /\ ImpIdle /\ EntIdle

NextUi ==
    \/ UiHandleFile
    \/ UiDecoded
    \/ UiDecodeFailed
    \/ UiClick
    \/ UiArchived
    \/ UiDownloaded
    \/ UiExportFailed
    \/ UiTimer

SpecUi == InitUi /\ [][NextUi]_vars

InitEnt ==
    EntInit /\ TarIdle /\ HierIdle /\ ParseIdle /\ OlxIdle /\ UiIdle /\ ImpIdle

NextEnt ==
    \/ EntEscape
    \/ EntDecode
    \/ EntReadAttribute

SpecEnt == InitEnt /\ [][NextEnt]_vars

\* The page with its two modes.  Build mode and Import mode share no module
\* variable and no element of the page, and nothing a handler of one mode
\* does is read by a handler of the other; the page is followed in the mode
\* the user works in.
InitPage ==
    UiInit /\ ImpInit /\ TarIdle /\ HierIdle /\ ParseIdle /\ OlxIdle /\ EntIdle

NextPage ==
    \/ ImpIdle /\ NextUi
    \/ UiIdle /\ NextImp

\* generateTarGz, courseDataToExcel and downloadBlob settle, by resolving or by
\* rejecting, and the event loop runs the callback of a timer that was set
FairPage ==
    /\ WF_vars(UiArchived \/ UiExportFailed)
    /\ WF_vars(UiDownloaded \/ UiExportFailed)
    /\ WF_vars(UiTimer)
    /\ WF_vars(ImpWritten \/ ImpExportFailed)
    /\ WF_vars(ImpDownloaded \/ ImpExportFailed)
    /\ WF_vars(ImpTimer)

SpecPage == InitPage /\ [][NextPage]_vars /\ FairPage

\* C30: after every click that starts a Build export or an Excel export,
\* provided generateTarGz, courseDataToExcel and downloadBlob settle, the
\* clicked button eventually becomes enabled again with its default label, on
\* the success path and on the failure path.
ButtonsRestored ==
    /\ (Len(uexports) > 0) ~> (~udisabled /\ ulabel = ExportLabel)
    /\ (Len(iexports) > 0) ~> (~idisabled /\ ilabel = ExcelLabel)

\* C30 witness: the export button was clicked once, the handler has ended, the
\* callback of its timer has run, and the button is enabled with its label
ButtonsRestoredWitness ==
    /\ uclicks = 1
    /\ uexports = <<>>
    /\ utimers = 0
    /\ ~udisabled
    /\ ulabel = ExportLabel

====
